---- MODULE Spec2Model ----
(***************************************************************************)
(* A model of mcp-virtual-fs: the path utility (src/src/paths.ts), the     *)
(* PostgreSQL storage backend (src/src/storage/index.ts) and the virtual   *)
(* filesystem semantics layer (src/src/vfs.ts).                            *)
(*                                                                         *)
(* Strings are sequences of one-character strings, so that the code's      *)
(* string operations (split, slice, startsWith, SQL LIKE, substr, ||) are  *)
(* computed character by character.  A path is such a sequence: "/a/b" is  *)
(* <<"/", "a", "/", "b">>.                                                 *)
(***************************************************************************)
EXTENDS Integers, Sequences, FiniteSets, TLC

VARIABLES
    sessions,   \* table vfs_sessions: rows [id, is_persistent]
    nodes,      \* table vfs_nodes: rows [session_id, path, node_type, content]
    known,      \* PostgresBackend.knownNamespaces
    prev,       \* history: the backend's state before the last operation
    last,       \* history: the last operation, its arguments and its outcome
    steps,      \* number of operations executed so far
    enableRls,  \* PostgresBackend.enableRls
    procs,      \* the operations in flight, one per concurrent caller
    conns,      \* the connections of the pool: who holds each, and its
                \* value of app.vfs_session_id
    hist        \* history: the namespaces swept, the last upsert executed

vars == <<sessions, nodes, known, prev, last, steps,
          enableRls, procs, conns, hist>>

\* the variables of the operations in flight
concVars == <<enableRls, procs, conns, hist>>

-----------------------------------------------------------------------------
(* Bounds and input sets                                                   *)

\* Number of operations in a run.
MaxOps == 2

\* Largest number of segments of the paths given to validatePath alone.
MaxDepth == 52

\* The longest string given to the pure path functions.
MaxLen == 5

\* const MAX_PATH_LENGTH = 4096
MAX_PATH_LENGTH == 4096

\* const MAX_GLOB_PATHS = 10_000
MAX_GLOB_PATHS == 10000

\* SQL NULL in the content column (no content character is "null").
NULL == <<"null">>

Root == <<"/">>

\* Characters in the range \x00-\x1f that the inputs use.
ControlChars == {"NUL", "\t", "\n"}

\* Segment names: a plain letter and the two characters SQL LIKE reads
\* specially in a pattern that is built from a path.
Names == {"a", "_", "\\"}

\* Names of the second level.
Leaves == {"a"}

\* Names under which the second level is populated.
Parents == {"a", "\\"}

\* A path validatePath rejects: it holds a control character.
BadPath == <<"/", "\t">>

\* The path arguments callers pass: the root, every one-segment path over
\* the names above, the two-segment paths under the parents, and the
\* rejected path.
PathInputs ==
    {Root, BadPath}
      \cup {<<"/", n>> : n \in Names}
      \cup {<<"/", n, "/", l>> : n \in Parents, l \in Leaves}

\* The decimal digits, as characters of paths, contents and patterns.
Digits == {"0", "1", "2", "3", "4", "5", "6", "7", "8", "9"}

\* File contents callers pass: the empty string and a one-character string.
Contents == {<<>>, <<"x">>}

\* Callers as <<session id, store argument>>; the store argument "" stands
\* for an omitted (undefined) or empty store, which `if (store)` treats alike.
\* "A" is used both as a session id and as a store name.
NoStore == ""
Callers == {<<"A", NoStore>>, <<"B", NoStore>>, <<"B", "A">>}

-----------------------------------------------------------------------------
(* Path utility: src/src/paths.ts                                          *)

\* String.prototype.split(sep) for a one-character separator: the pieces
\* between one occurrence of sep (or the start) and the next (or the end)
Split(s, sep) ==
    LET pos    == SelectSeq([i \in 1..Len(s) |-> i], LAMBDA i : s[i] = sep)
        cut(k) == IF k = 0 THEN 0
                  ELSE IF k > Len(pos) THEN Len(s) + 1
                  ELSE pos[k]
    IN  [k \in 1..(Len(pos) + 1) |-> SubSeq(s, cut(k - 1) + 1, cut(k) - 1)]

SplitSlash(s) == Split(s, "/")

\* Array.prototype.join("/")
RECURSIVE JoinSlash(_)
JoinSlash(segs) ==
    IF segs = <<>> THEN <<>>
    ELSE IF Len(segs) = 1 THEN segs[1]
    ELSE LET half == Len(segs) \div 2
         IN  JoinSlash(SubSeq(segs, 1, half)) \o <<"/">>
               \o JoinSlash(SubSeq(segs, half + 1, Len(segs)))

\* the body of the loop of normalizePath: one segment
ResolveSegment(seg, resolved) ==
    IF seg = <<>> \/ seg = <<".">> THEN resolved
    ELSE IF seg = <<".", ".">>
    THEN (IF resolved = <<>> THEN <<>>
          ELSE SubSeq(resolved, 1, Len(resolved) - 1))
    ELSE Append(resolved, seg)

\* the loop of normalizePath over the segments, first to last: the first
\* half of them, then the second half (resolved is looked at first, so
\* that it is computed before the second half is entered)
RECURSIVE ResolveSegments(_, _)
ResolveSegments(segs, resolved) ==
    IF Len(resolved) >= 0 /\ segs = <<>> THEN resolved
    ELSE IF Len(segs) = 1 THEN ResolveSegment(segs[1], resolved)
    ELSE LET half == Len(segs) \div 2
         IN  ResolveSegments(SubSeq(segs, half + 1, Len(segs)),
                             ResolveSegments(SubSeq(segs, 1, half), resolved))

\* Mutant of normalizePath: a trailing slash of the input is kept.
normalizePath_KeepTrailing(input) ==
    IF input = <<>> THEN Root
    ELSE LET p == IF Head(input) = "/" THEN input ELSE <<"/">> \o input
             n == <<"/">> \o JoinSlash(ResolveSegments(SplitSlash(p), <<>>))
         IN  IF input[Len(input)] = "/" /\ n # Root THEN n \o <<"/">> ELSE n

normalizePath(input) ==
    IF input = <<>> THEN Root
    ELSE LET p == IF Head(input) = "/" THEN input ELSE <<"/">> \o input
         IN  <<"/">> \o JoinSlash(ResolveSegments(SplitSlash(p), <<>>))

\* String.prototype.lastIndexOf("/"), 1-based (0 when absent)
LastSlash(s) ==
    LET idx == {i \in 1..Len(s) : s[i] = "/"}
    IN  IF idx = {} THEN 0 ELSE CHOOSE k \in idx : \A j \in idx : j <= k

parentPath(p) ==
    LET normalized == normalizePath(p)
    IN  IF normalized = Root THEN Root
        ELSE LET lastSlash == LastSlash(normalized)
             IN  IF lastSlash = 1 THEN Root
                 ELSE SubSeq(normalized, 1, lastSlash - 1)

basename(p) ==
    LET normalized == normalizePath(p)
    IN  IF normalized = Root THEN Root
        ELSE SubSeq(normalized, LastSlash(normalized) + 1, Len(normalized))

\* the non-empty segments of a path
Segments(p) == SelectSeq(SplitSlash(p), LAMBDA seg : seg # <<>>)

\* Mutant of ancestorPaths: the root is left out of the list.
ancestorPaths_NoRoot(p) ==
    LET normalized == normalizePath(p)
    IN  IF normalized = Root THEN <<>>
        ELSE LET segments == Segments(normalized)
             IN  [i \in 1..(Len(segments) - 1) |->
                     <<"/">> \o JoinSlash(SubSeq(segments, 1, i))]

ancestorPaths(p) ==
    LET normalized == normalizePath(p)
    IN  IF normalized = Root THEN <<>>
        ELSE LET segments == Segments(normalized)
             IN  <<Root>> \o
                 [i \in 1..(Len(segments) - 1) |->
                     <<"/">> \o JoinSlash(SubSeq(segments, 1, i))]

\* validatePath: [ok, path]; ok = FALSE stands for the thrown PathError.
\* The inputs here are strings, so the typeof test always passes.
validatePath(input) ==
    IF Len(input) > MAX_PATH_LENGTH THEN [ok |-> FALSE, path |-> Root]
    ELSE IF \E i \in 1..Len(input) : input[i] = "NUL"
    THEN [ok |-> FALSE, path |-> Root]
    ELSE IF \E i \in 1..Len(input) : input[i] \in ControlChars
    THEN [ok |-> FALSE, path |-> Root]
    ELSE [ok |-> TRUE, path |-> normalizePath(input)]

-----------------------------------------------------------------------------
(* SQL primitives used by the statements of the backend                    *)

\* s LIKE pat with PostgreSQL's default escape character, the backslash:
\* % matches any run of characters, _ one character, \c the character c.
RECURSIVE Like(_, _)
Like(s, pat) ==
    IF pat = <<>> THEN s = <<>>
    ELSE IF Head(pat) = "%"
    THEN \E k \in 0..Len(s) : Like(SubSeq(s, k + 1, Len(s)), Tail(pat))
    ELSE IF Head(pat) = "_"
    THEN s # <<>> /\ Like(Tail(s), Tail(pat))
    ELSE IF Head(pat) = "\\" /\ Len(pat) >= 2
    THEN s # <<>> /\ Head(s) = pat[2] /\ Like(Tail(s), Tail(Tail(pat)))
    ELSE s # <<>> /\ Head(s) = Head(pat) /\ Like(Tail(s), Tail(pat))

\* substr(s, from): the characters of s from position `from` (1-based) on
Substr(s, from) == SubSeq(s, from, Len(s))

-----------------------------------------------------------------------------
(* Storage backend: src/src/storage/index.ts.  Every operator is one SQL   *)
(* statement; N is the table vfs_nodes and S the table vfs_sessions.       *)

DirRow(ns, path) ==
    [session_id |-> ns, path |-> path, node_type |-> "directory", content |-> NULL]

FileRow(ns, path, content) ==
    [session_id |-> ns, path |-> path, node_type |-> "file", content |-> content]

\* Mutant of getNode: the namespace is left out of the WHERE clause.
getNode_AnyNamespace(N, namespaceId, path) ==
    {r \in N : r.path = path}

\* SELECT ... FROM vfs_nodes WHERE session_id = $1 AND path = $2
getNode(N, namespaceId, path) ==
    {r \in N : r.session_id = namespaceId /\ r.path = path}

\* the prefix both child queries compute
ChildPrefix(dirPath) == IF dirPath = Root THEN Root ELSE dirPath \o <<"/">>

\* WHERE session_id = $1 AND path LIKE $2 || '%'
\*   AND path NOT LIKE $2 || '%/%' AND path != $3
listChildren(N, namespaceId, dirPath) ==
    LET prefix == ChildPrefix(dirPath)
    IN  {r \in N : /\ r.session_id = namespaceId
                   /\ Like(r.path, prefix \o <<"%">>)
                   /\ ~Like(r.path, prefix \o <<"%", "/", "%">>)
                   /\ r.path # dirPath}

countChildren(N, namespaceId, dirPath) ==
    Cardinality(listChildren(N, namespaceId, dirPath))

\* Mutant of upsertFile: ON CONFLICT DO NOTHING.
upsertFile_KeepExisting(N, namespaceId, path, content) ==
    IF getNode(N, namespaceId, path) = {}
    THEN N \cup {FileRow(namespaceId, path, content)}
    ELSE N

\* INSERT ... VALUES ($1, $2, 'file', $3)
\* ON CONFLICT (session_id, path) DO UPDATE SET content = EXCLUDED.content
upsertFile(N, namespaceId, path, content) ==
    LET hit == getNode(N, namespaceId, path)
    IN  IF hit = {} THEN N \cup {FileRow(namespaceId, path, content)}
        ELSE (N \ hit) \cup {[r EXCEPT !.content = content] : r \in hit}

\* Mutant of appendFile: DO UPDATE SET content = EXCLUDED.content.
appendFile_Replace(N, namespaceId, path, content) ==
    upsertFile(N, namespaceId, path, content)

\* ... DO UPDATE SET content = COALESCE(vfs_nodes.content, '') || EXCLUDED.content
appendFile(N, namespaceId, path, content) ==
    LET hit == getNode(N, namespaceId, path)
    IN  IF hit = {} THEN N \cup {FileRow(namespaceId, path, content)}
        ELSE (N \ hit) \cup
             {[r EXCEPT !.content =
                  (IF r.content = NULL THEN <<>> ELSE r.content) \o content]
                : r \in hit}

\* Mutant of insertDir: ON CONFLICT DO UPDATE SET node_type = 'directory',
\* content = NULL.
insertDir_Overwrite(N, namespaceId, path) ==
    (N \ getNode(N, namespaceId, path)) \cup {DirRow(namespaceId, path)}

\* INSERT ... VALUES ($1, $2, 'directory') ON CONFLICT (session_id, path) DO NOTHING
insertDir(N, namespaceId, path) ==
    IF getNode(N, namespaceId, path) = {} THEN N \cup {DirRow(namespaceId, path)}
    ELSE N

\* the rows of: WHERE session_id = $1 AND (path = $2 OR path LIKE $2 || '/%')
SubtreeMatch(N, namespaceId, path) ==
    {r \in N : /\ r.session_id = namespaceId
               /\ (r.path = path \/ Like(r.path, path \o <<"/", "%">>))}

\* DELETE FROM vfs_nodes WHERE session_id = $1 AND (path = $2 OR path LIKE $3)
\* with $3 = path + "/%": [nodes, rowCount]
deleteNode(N, namespaceId, path) ==
    LET hit == SubtreeMatch(N, namespaceId, path)
    IN  [nodes |-> N \ hit, rowCount |-> Cardinality(hit)]

\* The new path the UPDATE of moveNode gives row r:
\* $3 || substr(path, length($2) + 1)
MovedPath(r, sourcePath, destPath) ==
    destPath \o Substr(r.path, Len(sourcePath) + 1)

\* The rows of the UPDATE of moveNode and the table it would leave.
MoveHit(N, namespaceId, sourcePath) == SubtreeMatch(N, namespaceId, sourcePath)

MoveResult(N, namespaceId, sourcePath, destPath) ==
    LET hit == MoveHit(N, namespaceId, sourcePath)
    IN  (N \ hit) \cup
        {[r EXCEPT !.path = MovedPath(r, sourcePath, destPath)] : r \in hit}

\* Mutant of MoveFinalConflict: the table has no UNIQUE (session_id, path).
MoveFinalConflict_NoConstraint(N, namespaceId, sourcePath, destPath) == FALSE

\* UNIQUE (session_id, path) is violated by the table the UPDATE would leave:
\* two updated rows get one path, or an updated row gets the path of a row
\* the UPDATE leaves alone.
MoveFinalConflict(N, namespaceId, sourcePath, destPath) ==
    LET hit == MoveHit(N, namespaceId, sourcePath)
    IN  \/ \E r1, r2 \in hit :
              /\ r1 # r2
              /\ MovedPath(r1, sourcePath, destPath) = MovedPath(r2, sourcePath, destPath)
        \/ \E r1 \in hit, r2 \in N \ hit :
              /\ r2.session_id = namespaceId
              /\ MovedPath(r1, sourcePath, destPath) = r2.path

\* The constraint is not deferrable, so it is checked row by row: an updated
\* row that takes the old path of another row the same UPDATE moves away
\* fails or succeeds with the order in which the rows are visited.
MoveTransientConflict(N, namespaceId, sourcePath, destPath) ==
    LET hit == MoveHit(N, namespaceId, sourcePath)
    IN  \E r1, r2 \in hit :
           /\ r1 # r2
           /\ MovedPath(r1, sourcePath, destPath) = r2.path
           /\ MovedPath(r2, sourcePath, destPath) # r2.path

\* moveNode: [ok, nodes]; ok = FALSE is the storage error of the unique
\* constraint, which leaves the table as it was.  No operation executed
\* alone reaches a transient conflict (MoveOrderIndependent below), so the
\* outcome does not depend on the order of the rows.
moveNode(N, namespaceId, sourcePath, destPath) ==
    IF MoveFinalConflict(N, namespaceId, sourcePath, destPath)
    THEN [ok |-> FALSE, nodes |-> N]
    ELSE [ok |-> TRUE, nodes |-> MoveResult(N, namespaceId, sourcePath, destPath)]

\* INSERT INTO vfs_sessions (id, is_persistent) VALUES ($1, <flag>)
\* ON CONFLICT (id) DO NOTHING
insertSession(S, id, persistent) ==
    IF \E s \in S : s.id = id THEN S
    ELSE S \cup {[id |-> id, is_persistent |-> persistent]}

\* The backend's state as one value.
DB(S, N, K) == [sessions |-> S, nodes |-> N, known |-> K]

\* Mutant of ensureSession: the root directory is not inserted.
ensureSession_NoRoot(db, id) ==
    IF id \in db.known THEN db
    ELSE DB(insertSession(db.sessions, id, FALSE), db.nodes, db.known \cup {id})

ensureSession(db, id) ==
    IF id \in db.known THEN db
    ELSE DB(insertSession(db.sessions, id, FALSE),
            insertDir(db.nodes, id, Root),
            db.known \cup {id})

ensureStore(db, name) ==
    IF name \in db.known THEN db
    ELSE DB(insertSession(db.sessions, name, TRUE),
            insertDir(db.nodes, name, Root),
            db.known \cup {name})

\* resolveNamespace: [db, ns]; `if (store)` is false for "" and undefined
resolveNamespace(db, sessionId, store) ==
    IF store # NoStore THEN [db |-> ensureStore(db, store), ns |-> store]
    ELSE [db |-> ensureSession(db, sessionId), ns |-> sessionId]

\* The order of the namespace ids used here, for ORDER BY id.
IdRank(id) == CASE id = "A" -> 1 [] id = "B" -> 2 [] OTHER -> 0

\* the elements of a set of ids in ascending order
RECURSIVE SortIds(_)
SortIds(ids) ==
    IF ids = {} THEN <<>>
    ELSE LET first == CHOOSE a \in ids : \A b \in ids : IdRank(a) <= IdRank(b)
         IN  <<first>> \o SortIds(ids \ {first})

\* SELECT id FROM vfs_sessions WHERE is_persistent = true ORDER BY id
listStores(S) == SortIds({s.id : s \in {t \in S : t.is_persistent}})

-----------------------------------------------------------------------------
(* Row level security: src/sql/rls.sql (the same text is RLS_SQL in        *)
(* src/src/storage/schema.ts).  With enableRls, query() runs each          *)
(* statement on a client on which it has set app.vfs_session_id to the     *)
(* namespace id; a statement sees, and may write, only the rows that pass  *)
(* the policy of their table.  SQL conditions are three-valued: "t", "f"   *)
(* or "u" (unknown), and a row passes when the condition is "t".           *)

\* current_setting('app.vfs_session_id', true) while the variable is not
\* set: SQL NULL (no namespace id is "NULL").
NoSetting == "NULL"

\* a = b in SQL, for ids: unknown when either side is NULL
SqlEq(a, b) ==
    IF a = NoSetting \/ b = NoSetting THEN "u" ELSE IF a = b THEN "t" ELSE "f"

\* x OR y in SQL
SqlOr(x, y) ==
    IF x = "t" \/ y = "t" THEN "t" ELSE IF x = "u" \/ y = "u" THEN "u" ELSE "f"

SqlBool(b) == IF b THEN "t" ELSE "f"

\* query(text, params, namespaceId): set_config('app.vfs_session_id', $1, false)
\* with the namespace id when enableRls && namespaceId; so the value
\* current_setting('app.vfs_session_id', true) has in the statement.  An
\* empty or absent namespaceId sets nothing: NULL on a fresh connection.
queryVariable(namespaceId) == IF namespaceId = "" THEN NoSetting ELSE namespaceId

\* POLICY vfs_sessions_isolation: USING and WITH CHECK
\*   id = current_setting('app.vfs_session_id', true) OR is_persistent = true
vfs_sessions_isolation(v, row) ==
    SqlOr(SqlEq(row.id, v), SqlBool(row.is_persistent)) = "t"

\* the rows of vfs_sessions a statement sees
RlsSessions(v, S) == {x \in S : vfs_sessions_isolation(v, x)}

\* Mutant of the policy of vfs_nodes: every row passes while the variable
\* is not set (current_setting(...) IS NULL OR ...).
vfs_nodes_isolation_OpenWhenUnset(v, row, S) ==
    \/ v = NoSetting
    \/ SqlOr(SqlEq(row.session_id, v),
             SqlBool(row.session_id \in
                 {x.id : x \in {y \in RlsSessions(v, S) : y.is_persistent}})) = "t"

\* POLICY vfs_nodes_isolation: USING and WITH CHECK
\*   session_id = current_setting('app.vfs_session_id', true)
\*   OR session_id IN (SELECT id FROM vfs_sessions WHERE is_persistent = true)
\* (the subquery reads vfs_sessions under that table's policy)
vfs_nodes_isolation(v, row, S) ==
    SqlOr(SqlEq(row.session_id, v),
          SqlBool(row.session_id \in
              {x.id : x \in {y \in RlsSessions(v, S) : y.is_persistent}})) = "t"

\* the rows of vfs_nodes a statement sees
RlsNodes(v, N, S) == {r \in N : vfs_nodes_isolation(v, r, S)}

-----------------------------------------------------------------------------
(* Virtual filesystem semantics: src/src/vfs.ts.  Each operator is one     *)
(* method, run from its first statement to its return or throw, and gives  *)
(* the backend state it leaves and what it returns.                        *)

\* What a method hands back: err is "ok", a VfsError code, "PathError" (the
\* error validatePath throws) or "DBERROR" (an error of the database).
Out(db, err) ==
    [db |-> db, err |-> err, ns |-> "",
     content |-> <<>>, count |-> 0, flag |-> FALSE, type |-> "",
     entries |-> <<>>]

\* ensureParents: insertDir for every ancestor, root first
RECURSIVE InsertDirs(_, _, _)
InsertDirs(N, namespaceId, paths) ==
    IF paths = <<>> THEN N
    ELSE InsertDirs(insertDir(N, namespaceId, Head(paths)), namespaceId, Tail(paths))

\* Mutant of ensureParents: no ancestor is created.
ensureParents_Skip(N, namespaceId, path) == N

ensureParents(N, namespaceId, path) ==
    InsertDirs(N, namespaceId, ancestorPaths(path))

IsDir(hit) == \E r \in hit : r.node_type = "directory"
IsFile(hit) == \E r \in hit : r.node_type = "file"

\* node.content ?? ""
ContentOf(hit) ==
    LET r == CHOOSE x \in hit : TRUE
    IN  IF r.content = NULL THEN <<>> ELSE r.content

\* Mutant of stat: a missing node is an ENOENT error, as in read.
vfs_stat_Enoent(db, sessionId, path, store) ==
    LET v == validatePath(path)
    IN  IF ~v.ok THEN Out(db, "PathError")
        ELSE
        LET rn   == resolveNamespace(db, sessionId, store)
            node == getNode(rn.db.nodes, rn.ns, v.path)
            base == [Out(rn.db, "ok") EXCEPT !.ns = rn.ns]
        IN  IF node = {} THEN [base EXCEPT !.err = "ENOENT"]
            ELSE IF IsFile(node)
            THEN [base EXCEPT !.flag = TRUE, !.type = "file",
                              !.count = Len(ContentOf(node))]
            ELSE [base EXCEPT !.flag = TRUE, !.type = "directory",
                              !.count = countChildren(rn.db.nodes, rn.ns, v.path)]

vfs_stat(db, sessionId, path, store) ==
    LET v == validatePath(path)
    IN  IF ~v.ok THEN Out(db, "PathError")
        ELSE
        LET rn   == resolveNamespace(db, sessionId, store)
            node == getNode(rn.db.nodes, rn.ns, v.path)
            base == [Out(rn.db, "ok") EXCEPT !.ns = rn.ns]
        IN  IF node = {} THEN base   \* { exists: false }
            ELSE IF IsFile(node)
            THEN [base EXCEPT !.flag = TRUE, !.type = "file",
                              !.count = Len(ContentOf(node))]
            ELSE [base EXCEPT !.flag = TRUE, !.type = "directory",
                              !.count = countChildren(rn.db.nodes, rn.ns, v.path)]

vfs_read(db, sessionId, path, store) ==
    LET v == validatePath(path)
    IN  IF ~v.ok THEN Out(db, "PathError")
        ELSE
        LET rn   == resolveNamespace(db, sessionId, store)
            node == getNode(rn.db.nodes, rn.ns, v.path)
            base == [Out(rn.db, "ok") EXCEPT !.ns = rn.ns]
        IN  IF node = {} THEN [base EXCEPT !.err = "ENOENT"]
            ELSE IF IsDir(node) THEN [base EXCEPT !.err = "EISDIR"]
            ELSE [base EXCEPT !.content = ContentOf(node)]

vfs_write(db, sessionId, path, content, store) ==
    LET v == validatePath(path)
    IN  IF ~v.ok THEN Out(db, "PathError")
        ELSE IF v.path = Root THEN Out(db, "EINVAL")
        ELSE
        LET rn       == resolveNamespace(db, sessionId, store)
            existing == getNode(rn.db.nodes, rn.ns, v.path)
            base     == [Out(rn.db, "ok") EXCEPT !.ns = rn.ns]
        IN  IF IsDir(existing) THEN [base EXCEPT !.err = "EISDIR"]
            ELSE
            LET createdParents == Len(ancestorPaths(v.path)) > 1
                n1 == ensureParents(rn.db.nodes, rn.ns, v.path)
                n2 == upsertFile(n1, rn.ns, v.path, content)
            IN  [base EXCEPT !.db.nodes = n2, !.flag = createdParents]

vfs_append(db, sessionId, path, content, store) ==
    LET v == validatePath(path)
    IN  IF ~v.ok THEN Out(db, "PathError")
        ELSE IF v.path = Root THEN Out(db, "EINVAL")
        ELSE
        LET rn       == resolveNamespace(db, sessionId, store)
            existing == getNode(rn.db.nodes, rn.ns, v.path)
            base     == [Out(rn.db, "ok") EXCEPT !.ns = rn.ns]
        IN  IF IsDir(existing) THEN [base EXCEPT !.err = "EISDIR"]
            ELSE
            LET n1 == ensureParents(rn.db.nodes, rn.ns, v.path)
                n2 == appendFile(n1, rn.ns, v.path, content)
            IN  [base EXCEPT !.db.nodes = n2]

\* The order of ls: directories before files, then by name.  Names are
\* compared character by character with the rank below.
CharRank(c) ==
    CASE c = "_" -> 1 [] c = "\\" -> 2 [] c = "%" -> 3 [] c = "a" -> 4
      [] c = "b" -> 5 [] c = "x" -> 6 [] OTHER -> 0

RECURSIVE SeqLess(_, _)
SeqLess(s, t) ==
    IF t = <<>> THEN FALSE
    ELSE IF s = <<>> THEN TRUE
    ELSE IF CharRank(Head(s)) # CharRank(Head(t))
    THEN CharRank(Head(s)) < CharRank(Head(t))
    ELSE SeqLess(Tail(s), Tail(t))

\* the comparator of the sort in ls, as "a goes before b or ties with it"
EntryBefore(a, b) ==
    IF a.type # b.type THEN a.type = "directory"
    ELSE ~SeqLess(b.name, a.name)

\* children.map(...).sort(...): one entry per row
RECURSIVE SortedEntries(_)
SortedEntries(rows) ==
    IF rows = {} THEN <<>>
    ELSE LET entry(r) == [name |-> basename(r.path), type |-> r.node_type]
             first == CHOOSE r \in rows :
                         \A q \in rows : EntryBefore(entry(r), entry(q))
         IN  <<entry(first)>> \o SortedEntries(rows \ {first})

vfs_ls(db, sessionId, path, store) ==
    LET v == validatePath(path)
    IN  IF ~v.ok THEN Out(db, "PathError")
        ELSE
        LET rn   == resolveNamespace(db, sessionId, store)
            node == getNode(rn.db.nodes, rn.ns, v.path)
            base == [Out(rn.db, "ok") EXCEPT !.ns = rn.ns]
        IN  IF node = {} THEN [base EXCEPT !.err = "ENOENT"]
            ELSE IF ~IsDir(node) THEN [base EXCEPT !.err = "ENOTDIR"]
            ELSE [base EXCEPT !.entries =
                     SortedEntries(listChildren(rn.db.nodes, rn.ns, v.path))]

vfs_mkdir(db, sessionId, path, store) ==
    LET v == validatePath(path)
    IN  IF ~v.ok THEN Out(db, "PathError")
        ELSE IF v.path = Root THEN [Out(db, "ok") EXCEPT !.flag = TRUE]
        ELSE
        LET rn       == resolveNamespace(db, sessionId, store)
            existing == getNode(rn.db.nodes, rn.ns, v.path)
            base     == [Out(rn.db, "ok") EXCEPT !.ns = rn.ns]
        IN  IF IsFile(existing) THEN [base EXCEPT !.err = "EEXIST"]
            ELSE
            LET alreadyExisted == IsDir(existing)
                n1 == ensureParents(rn.db.nodes, rn.ns, v.path)
                n2 == insertDir(n1, rn.ns, v.path)
            IN  [base EXCEPT !.db.nodes = n2, !.flag = alreadyExisted]

vfs_rm(db, sessionId, path, store) ==
    LET v == validatePath(path)
    IN  IF ~v.ok THEN Out(db, "PathError")
        ELSE IF v.path = Root THEN Out(db, "EINVAL")
        ELSE
        LET rn   == resolveNamespace(db, sessionId, store)
            node == getNode(rn.db.nodes, rn.ns, v.path)
            base == [Out(rn.db, "ok") EXCEPT !.ns = rn.ns]
        IN  IF node = {} THEN [base EXCEPT !.err = "ENOENT"]
            ELSE LET d == deleteNode(rn.db.nodes, rn.ns, v.path)
                 IN  [base EXCEPT !.db.nodes = d.nodes, !.count = d.rowCount]

\* String.prototype.startsWith
StartsWith(s, prefix) ==
    Len(s) >= Len(prefix) /\ SubSeq(s, 1, Len(prefix)) = prefix

\* Mutant of move: the ancestors of the destination are created before the
\* source and the destination are looked up.
vfs_move_ParentsFirst(db, sessionId, source, destination, store) ==
    LET vs == validatePath(source)
        vd == validatePath(destination)
    IN  IF ~vs.ok \/ ~vd.ok THEN Out(db, "PathError")
        ELSE IF vs.path = Root THEN Out(db, "EINVAL")
        ELSE IF vd.path = Root THEN Out(db, "EINVAL")
        ELSE IF StartsWith(vd.path, vs.path \o <<"/">>) THEN Out(db, "EINVAL")
        ELSE
        LET rn       == resolveNamespace(db, sessionId, store)
            n1       == IF parentPath(vd.path) # Root
                        THEN ensureParents(rn.db.nodes, rn.ns, vd.path)
                        ELSE rn.db.nodes
            srcNode  == getNode(n1, rn.ns, vs.path)
            destNode == getNode(n1, rn.ns, vd.path)
            base     == [Out(rn.db, "ok") EXCEPT !.ns = rn.ns, !.db.nodes = n1]
        IN  IF srcNode = {} THEN [base EXCEPT !.err = "ENOENT"]
            ELSE IF destNode # {} THEN [base EXCEPT !.err = "EEXIST"]
            ELSE
            LET m == moveNode(n1, rn.ns, vs.path, vd.path)
            IN  IF m.ok THEN [base EXCEPT !.db.nodes = m.nodes]
                ELSE [base EXCEPT !.err = "DBERROR"]

\* Mutant of move: the destination is looked up before the source.
vfs_move_DestFirst(db, sessionId, source, destination, store) ==
    LET vs == validatePath(source)
        vd == validatePath(destination)
    IN  IF ~vs.ok \/ ~vd.ok THEN Out(db, "PathError")
        ELSE IF vs.path = Root THEN Out(db, "EINVAL")
        ELSE IF vd.path = Root THEN Out(db, "EINVAL")
        ELSE IF StartsWith(vd.path, vs.path \o <<"/">>) THEN Out(db, "EINVAL")
        ELSE
        LET rn       == resolveNamespace(db, sessionId, store)
            srcNode  == getNode(rn.db.nodes, rn.ns, vs.path)
            destNode == getNode(rn.db.nodes, rn.ns, vd.path)
            base     == [Out(rn.db, "ok") EXCEPT !.ns = rn.ns]
        IN  IF destNode # {} THEN [base EXCEPT !.err = "EEXIST"]
            ELSE IF srcNode = {} THEN [base EXCEPT !.err = "ENOENT"]
            ELSE
            LET n1 == IF parentPath(vd.path) # Root
                      THEN ensureParents(rn.db.nodes, rn.ns, vd.path)
                      ELSE rn.db.nodes
                m  == moveNode(n1, rn.ns, vs.path, vd.path)
            IN  IF m.ok THEN [base EXCEPT !.db.nodes = m.nodes]
                ELSE [base EXCEPT !.db.nodes = n1, !.err = "DBERROR"]

vfs_move(db, sessionId, source, destination, store) ==
    LET vs == validatePath(source)
        vd == validatePath(destination)
    IN  IF ~vs.ok \/ ~vd.ok THEN Out(db, "PathError")
        ELSE IF vs.path = Root THEN Out(db, "EINVAL")
        ELSE IF vd.path = Root THEN Out(db, "EINVAL")
        ELSE IF StartsWith(vd.path, vs.path \o <<"/">>) THEN Out(db, "EINVAL")
        ELSE
        LET rn       == resolveNamespace(db, sessionId, store)
            srcNode  == getNode(rn.db.nodes, rn.ns, vs.path)
            destNode == getNode(rn.db.nodes, rn.ns, vd.path)
            base     == [Out(rn.db, "ok") EXCEPT !.ns = rn.ns]
        IN  IF srcNode = {} THEN [base EXCEPT !.err = "ENOENT"]
            ELSE IF destNode # {} THEN [base EXCEPT !.err = "EEXIST"]
            ELSE
            LET n1 == IF parentPath(vd.path) # Root
                      THEN ensureParents(rn.db.nodes, rn.ns, vd.path)
                      ELSE rn.db.nodes
                m  == moveNode(n1, rn.ns, vs.path, vd.path)
            IN  IF m.ok THEN [base EXCEPT !.db.nodes = m.nodes]
                ELSE [base EXCEPT !.db.nodes = n1, !.err = "DBERROR"]

-----------------------------------------------------------------------------
(* glob and grep                                                           *)

\* Byte order of the characters used, for ORDER BY path.
ByteRank(c) ==
    CASE c = "\t" -> 9 [] c = "\n" -> 10 [] c = "%" -> 37 [] c = "*" -> 42
      [] c = "." -> 46 [] c = "/" -> 47
      [] c = "0" -> 48 [] c = "1" -> 49 [] c = "2" -> 50 [] c = "3" -> 51
      [] c = "4" -> 52 [] c = "5" -> 53 [] c = "6" -> 54 [] c = "7" -> 55
      [] c = "8" -> 56 [] c = "9" -> 57
      [] c = "[" -> 91 [] c = "\\" -> 92
      [] c = "_" -> 95 [] c = "a" -> 97 [] c = "b" -> 98 [] c = "x" -> 120
      [] OTHER -> 0

RECURSIVE PathLess(_, _)
PathLess(s, t) ==
    IF t = <<>> THEN FALSE
    ELSE IF s = <<>> THEN TRUE
    ELSE IF ByteRank(Head(s)) # ByteRank(Head(t))
    THEN ByteRank(Head(s)) < ByteRank(Head(t))
    ELSE PathLess(Tail(s), Tail(t))

\* the characters of a set in ascending byte order
RECURSIVE SortChars(_)
SortChars(cs) ==
    IF cs = {} THEN <<>>
    ELSE LET first == CHOOSE c \in cs : \A d \in cs : ByteRank(c) <= ByteRank(d)
         IN  <<first>> \o SortChars(cs \ {first})

\* the elements of a set of strings in ascending order (the order PathLess):
\* the empty string first, then the strings grouped by their first
\* character in byte order, each group ordered by what follows.
RECURSIVE SortPaths(_)
RECURSIVE SortGroups(_, _)
SortGroups(ps, chars) ==
    IF chars = <<>> THEN <<>>
    ELSE LET c     == Head(chars)
             tails == SortPaths({Tail(p) : p \in {q \in ps : Head(q) = c}})
         IN  [i \in 1..Len(tails) |-> <<c>> \o tails[i]]
               \o SortGroups(ps, Tail(chars))

SortPaths(ps) ==
    IF ps = {} THEN <<>>
    ELSE LET rest == ps \ {<<>>}
         IN  (IF <<>> \in ps THEN <<(<<>>)>> ELSE <<>>)
               \o SortGroups(rest, SortChars({Head(p) : p \in rest}))

\* SELECT path FROM vfs_nodes WHERE session_id = $1 AND node_type = 'file'
\* ORDER BY path
allFilePaths(N, namespaceId) ==
    SortPaths({r.path : r \in {x \in N : x.session_id = namespaceId
                                           /\ x.node_type = "file"}})

\* picomatch(pattern)(path) for the patterns used here: ** matches any run
\* of characters, * any run without a slash, any other character itself.
RECURSIVE GlobMatch(_, _)
GlobMatch(s, pat) ==
    IF pat = <<>> THEN s = <<>>
    ELSE IF Len(pat) >= 2 /\ pat[1] = "*" /\ pat[2] = "*"
    THEN \E k \in 0..Len(s) : GlobMatch(Substr(s, k + 1), Substr(pat, 3))
    ELSE IF Head(pat) = "*"
    THEN \E k \in 0..Len(s) :
            /\ \A i \in 1..k : s[i] # "/"
            /\ GlobMatch(Substr(s, k + 1), Tail(pat))
    ELSE s # <<>> /\ Head(s) = Head(pat) /\ GlobMatch(Tail(s), Tail(pat))

\* Mutant of glob: a namespace holding exactly MAX_GLOB_PATHS files is refused.
vfs_glob_AtCeiling(db, sessionId, pattern, store) ==
    LET rn       == resolveNamespace(db, sessionId, store)
        allPaths == allFilePaths(rn.db.nodes, rn.ns)
        base     == [Out(rn.db, "ok") EXCEPT !.ns = rn.ns]
    IN  IF Len(allPaths) >= MAX_GLOB_PATHS THEN [base EXCEPT !.err = "EINVAL"]
        ELSE [base EXCEPT !.entries =
                 SelectSeq(allPaths, LAMBDA p : GlobMatch(p, pattern))]

vfs_glob(db, sessionId, pattern, store) ==
    LET rn       == resolveNamespace(db, sessionId, store)
        allPaths == allFilePaths(rn.db.nodes, rn.ns)
        base     == [Out(rn.db, "ok") EXCEPT !.ns = rn.ns]
    IN  IF Len(allPaths) > MAX_GLOB_PATHS THEN [base EXCEPT !.err = "EINVAL"]
        ELSE [base EXCEPT !.entries =
                 SelectSeq(allPaths, LAMBDA p : GlobMatch(p, pattern))]

\* The search patterns used here are made of literal characters, the class
\* \d, the quantifier + after either, ^ at the start and $ at the end,
\* which new RegExp(pattern) and the operator ~ of PostgreSQL read alike,
\* and of "[", which does not compile.
RegExpCompiles(pattern) == \A i \in 1..Len(pattern) : pattern[i] # "["

\* the first atom of a pattern: a character, or a backslash and a letter
AtomLen(pat) == IF Head(pat) = "\\" /\ Len(pat) >= 2 THEN 2 ELSE 1

AtomMatches(pat, c) ==
    IF AtomLen(pat) = 2
    THEN (IF pat[2] = "d" THEN c \in Digits ELSE c = pat[2])
    ELSE c = pat[1]

\* pat matches a prefix of s.  $ matches only at the end of the whole
\* subject: ~ is not newline-sensitive, a newline in the subject is an
\* ordinary character.
RECURSIVE MatchHere(_, _)
MatchHere(s, pat) ==
    IF pat = <<>> THEN TRUE
    ELSE IF pat = <<"$">> THEN s = <<>>
    ELSE LET n    == AtomLen(pat)
             plus == Len(pat) > n /\ pat[n + 1] = "+"
             rest == Substr(pat, n + (IF plus THEN 2 ELSE 1))
         IN  IF plus
             THEN \E k \in 1..Len(s) :
                     /\ \A i \in 1..k : AtomMatches(pat, s[i])
                     /\ MatchHere(Substr(s, k + 1), rest)
             ELSE /\ s # <<>>
                  /\ AtomMatches(pat, Head(s))
                  /\ MatchHere(Tail(s), rest)

\* subject ~ pattern: the pattern matches somewhere in the subject, and
\* with a leading ^ only at its start.
RegexMatch(s, pattern) ==
    IF pattern # <<>> /\ Head(pattern) = "^"
    THEN MatchHere(s, Tail(pattern))
    ELSE \E k \in 0..Len(s) : MatchHere(Substr(s, k + 1), pattern)

\* String.prototype.replace(/c/g, by) for a one-character c
RECURSIVE ReplaceChar(_, _, _)
ReplaceChar(s, c, by) ==
    IF s = <<>> THEN <<>>
    ELSE (IF Head(s) = c THEN by ELSE <<Head(s)>>) \o ReplaceChar(Tail(s), c, by)

\* String.prototype.replace(/\*\*/g, "%")
RECURSIVE ReplaceStarStar(_)
ReplaceStarStar(s) ==
    IF s = <<>> THEN <<>>
    ELSE IF Len(s) >= 2 /\ s[1] = "*" /\ s[2] = "*"
    THEN <<"%">> \o ReplaceStarStar(Substr(s, 3))
    ELSE <<Head(s)>> \o ReplaceStarStar(Tail(s))

\* the translation of grep's pathFilter into a LIKE pattern
SqlPathFilter(pathFilter) ==
    LET escaped == ReplaceChar(ReplaceChar(pathFilter, "%", <<"\\", "%">>),
                               "_", <<"\\", "_">>)
    IN  ReplaceChar(ReplaceStarStar(escaped), "*", <<"%">>)

\* Mutant of GrepLines: the lines are numbered from 0.
GrepLines_ZeroBased(path, content, pattern) ==
    LET lines == Split(content, "\n")
    IN  SelectSeq([i \in 1..Len(lines) |->
                      [path |-> path, lineNumber |-> i - 1, line |-> lines[i]]],
                  LAMBDA m : RegexMatch(m.line, pattern))

\* grepContent: the matching lines of the matched files, as
\* [path, lineNumber, line], ordered by path and line number.
\* pathFilter = <<>> stands for no filter (`if (pathFilter)`).
GrepLines(path, content, pattern) ==
    LET lines == Split(content, "\n")
    IN  SelectSeq([i \in 1..Len(lines) |->
                      [path |-> path, lineNumber |-> i, line |-> lines[i]]],
                  LAMBDA m : RegexMatch(m.line, pattern))

RECURSIVE GrepFiles(_, _, _, _)
GrepFiles(N, namespaceId, paths, pattern) ==
    IF paths = <<>> THEN <<>>
    ELSE LET r == CHOOSE x \in getNode(N, namespaceId, Head(paths)) : TRUE
         IN  GrepLines(r.path, r.content, pattern)
               \o GrepFiles(N, namespaceId, Tail(paths), pattern)

grepContent(N, namespaceId, pattern, pathFilter) ==
    LET matched == {r \in N : /\ r.session_id = namespaceId
                               /\ r.node_type = "file"
                               /\ r.content # NULL
                               /\ RegexMatch(r.content, pattern)
                               /\ (pathFilter # <<>> => Like(r.path, pathFilter))}
    IN  GrepFiles(N, namespaceId, SortPaths({r.path : r \in matched}), pattern)

\* Mutant of grep: the namespace is resolved before the pattern is compiled.
vfs_grep_ResolveFirst(db, sessionId, pattern, pathFilter, store) ==
    LET rn   == resolveNamespace(db, sessionId, store)
        base == [Out(rn.db, "ok") EXCEPT !.ns = rn.ns]
        sqlPathFilter == IF pathFilter # <<>> THEN SqlPathFilter(pathFilter)
                         ELSE <<>>
    IN  IF ~RegExpCompiles(pattern) THEN [Out(rn.db, "EINVAL") EXCEPT !.ns = rn.ns]
        ELSE [base EXCEPT !.entries =
                 grepContent(rn.db.nodes, rn.ns, pattern, sqlPathFilter)]

vfs_grep(db, sessionId, pattern, pathFilter, store) ==
    IF ~RegExpCompiles(pattern) THEN Out(db, "EINVAL")
    ELSE
    LET rn   == resolveNamespace(db, sessionId, store)
        base == [Out(rn.db, "ok") EXCEPT !.ns = rn.ns]
        sqlPathFilter == IF pathFilter # <<>> THEN SqlPathFilter(pathFilter)
                         ELSE <<>>
    IN  [base EXCEPT !.entries =
            grepContent(rn.db.nodes, rn.ns, pattern, sqlPathFilter)]

-----------------------------------------------------------------------------
(* The MCP adapter: src/src/tools.ts.  Every tool handler wraps its call   *)
(* of VirtualFS in the same try/catch.                                     *)

\* The codes VfsError is constructed with in vfs.ts.
VfsErrorCodes == {"ENOENT", "EISDIR", "ENOTDIR", "EEXIST", "EINVAL"}

\* What the handler of a tool gives the MCP server for the outcome r of the
\* method it called: ok(...), err(code: message) for a VfsError, and any
\* other exception thrown on (throw e).
toolResult(r) ==
    IF r.err = "ok" THEN [kind |-> "result", isError |-> FALSE, code |-> ""]
    ELSE IF r.err \in VfsErrorCodes
    THEN [kind |-> "result", isError |-> TRUE, code |-> r.err]
    ELSE [kind |-> "thrown", isError |-> TRUE, code |-> ""]

-----------------------------------------------------------------------------
(* The state machine: one action per operation of VirtualFS, executed one  *)
(* at a time.                                                              *)

\* Patterns callers pass to glob, to grep, and as grep's path filter.
GlobPatterns == {<<"*", "*">>, <<"/", "a", "/", "*">>}
GrepPatterns == {<<"x">>, <<"[">>}
PathFilters == {<<>>, <<"/", "_", "*">>, <<"/", "\\", "*">>}

NoOp ==
    [op |-> "init", sid |-> "", store |-> NoStore, ns |-> "",
     path |-> Root, dest |-> Root, arg |-> <<>>, err |-> "ok",
     content |-> <<>>, count |-> 0, flag |-> FALSE, type |-> "",
     entries |-> <<>>]

Current == DB(sessions, nodes, known)

\* The concurrent callers and the connections of the pool.
Procs == {1, 2}
ConnIds == {1, 2}

\* A caller with no operation in flight.
IdleProc ==
    [op |-> "none", sid |-> "", store |-> NoStore, ns |-> "", path |-> Root,
     dest |-> Root, content |-> <<>>, pc |-> "idle", phase |-> "none", then |-> "idle",
     conn |-> 0, existing |-> "none", todo |-> <<>>, result |-> "none",
     pending |-> "none",
     unknownAtBegin |-> FALSE, absentAtBegin |-> FALSE, sweptDuring |-> FALSE,
     presentAtAccess |-> "unset", setConn |-> 0, execConn |-> 0,
     execSetConn |-> 0, execSetting |-> NoSetting]

\* A connection nobody holds, on which app.vfs_session_id was never set.
FreshConn == [owner |-> 0, setting |-> NoSetting]

NoUpsert == [ns |-> "", path |-> Root, proc |-> 0]

\* One operation at a time: no caller in flight, isolation mode off.
NothingInFlight ==
    /\ enableRls = FALSE
    /\ procs = [p \in Procs |-> IdleProc]
    /\ conns = [c \in ConnIds |-> FreshConn]
    /\ hist = [swept |-> {}, lastUpsert |-> NoUpsert, listedOn |-> NoSetting]

Init ==
    /\ sessions = {}
    /\ nodes = {}
    /\ known = {}
    /\ prev = DB({}, {}, {})
    /\ last = NoOp
    /\ steps = 0
    /\ NothingInFlight

\* the normalized form of a path argument (the argument itself when it is
\* rejected)
Norm(path) ==
    LET v == validatePath(path)
    IN  IF v.ok THEN v.path ELSE path

\* The state after an operation that returned r.
Commit(op, caller, path, dest, arg, r) ==
    /\ steps < MaxOps
    /\ steps' = steps + 1
    /\ sessions' = r.db.sessions
    /\ nodes' = r.db.nodes
    /\ known' = r.db.known
    /\ prev' = Current
    /\ last' = [op |-> op, sid |-> caller[1], store |-> caller[2], ns |-> r.ns,
                path |-> path, dest |-> dest, arg |-> arg, err |-> r.err,
                content |-> r.content, count |-> r.count, flag |-> r.flag,
                type |-> r.type, entries |-> r.entries]
    /\ UNCHANGED concVars

Stat(caller, path) ==
    Commit("stat", caller, Norm(path), Root, <<>>,
           vfs_stat(Current, caller[1], path, caller[2]))

Read(caller, path) ==
    Commit("read", caller, Norm(path), Root, <<>>,
           vfs_read(Current, caller[1], path, caller[2]))

Write(caller, path, content) ==
    Commit("write", caller, Norm(path), Root, content,
           vfs_write(Current, caller[1], path, content, caller[2]))

AppendOp(caller, path, content) ==
    Commit("append", caller, Norm(path), Root, content,
           vfs_append(Current, caller[1], path, content, caller[2]))

Ls(caller, path) ==
    Commit("ls", caller, Norm(path), Root, <<>>,
           vfs_ls(Current, caller[1], path, caller[2]))

Mkdir(caller, path) ==
    Commit("mkdir", caller, Norm(path), Root, <<>>,
           vfs_mkdir(Current, caller[1], path, caller[2]))

Rm(caller, path) ==
    Commit("rm", caller, Norm(path), Root, <<>>,
           vfs_rm(Current, caller[1], path, caller[2]))

Move(caller, source, destination) ==
    Commit("move", caller, Norm(source), Norm(destination), <<>>,
           vfs_move(Current, caller[1], source, destination, caller[2]))

\* VirtualFS.listStores: no session, no store, no namespace resolved
ListStores ==
    Commit("listStores", <<"", NoStore>>, Root, Root, <<>>,
           [Out(Current, "ok") EXCEPT !.entries = listStores(sessions)])

Glob(caller, pattern) ==
    Commit("glob", caller, Root, Root, pattern,
           vfs_glob(Current, caller[1], pattern, caller[2]))

Grep(caller, pattern, pathFilter) ==
    Commit("grep", caller, pathFilter, Root, pattern,
           vfs_grep(Current, caller[1], pattern, pathFilter, caller[2]))

Next ==
    \/ \E c \in Callers, p \in PathInputs : Stat(c, p)
    \/ \E c \in Callers, p \in PathInputs : Read(c, p)
    \/ \E c \in Callers, p \in PathInputs, x \in Contents : Write(c, p, x)
    \/ \E c \in Callers, p \in PathInputs, x \in Contents : AppendOp(c, p, x)
    \/ \E c \in Callers, p \in PathInputs : Ls(c, p)
    \/ \E c \in Callers, p \in PathInputs : Mkdir(c, p)
    \/ \E c \in Callers, p \in PathInputs : Rm(c, p)
    \/ \E c \in Callers, p \in PathInputs, d \in PathInputs : Move(c, p, d)
    \/ \E c \in Callers, g \in GlobPatterns : Glob(c, g)
    \/ ListStores
    \/ \E c \in Callers, g \in GrepPatterns, f \in PathFilters : Grep(c, g, f)

Spec == Init /\ [][Next]_vars

-----------------------------------------------------------------------------
(* The path utility alone: validatePath applied to paths of every depth up *)
(* to MaxDepth, with and without a trailing slash.                         *)

\* "/d/d/.../d" with n segments (the empty string for n = 0)
DeepPath(n) == [i \in 1..(2 * n) |-> IF i % 2 = 1 THEN "/" ELSE "d"]

\* validatePath(input) called: err is "ok" or "PathError", content the
\* string returned.
ValidatePath(input) ==
    LET v == validatePath(input)
    IN  Commit("validatePath", <<"", NoStore>>, input, Root, <<>>,
               [Out(Current, IF v.ok THEN "ok" ELSE "PathError")
                   EXCEPT !.content = IF v.ok THEN v.path ELSE <<>>])

NextPaths ==
    \E n \in 0..MaxDepth, slash \in {<<>>, <<"/">>} :
        ValidatePath(DeepPath(n) \o slash)

SpecPaths == Init /\ [][NextPaths]_vars

-----------------------------------------------------------------------------
(* The pure path functions applied to every string of up to MaxLen         *)
(* characters over a slash, a dot and a letter.                            *)

PathAlphabet == {"/", ".", "a"}

PathStrings == UNION {[1..n -> PathAlphabet] : n \in 0..MaxLen}

\* The state after a call of a pure function that returned r: the backend
\* is not touched.
Apply(op, input, r) ==
    /\ prev' = Current
    /\ last' = [NoOp EXCEPT !.op = op, !.path = input, !.err = r.err,
                            !.content = r.content, !.entries = r.entries]
    /\ UNCHANGED <<sessions, nodes, known, steps>>
    /\ UNCHANGED concVars

NormalizePath(input) ==
    Apply("normalizePath", input,
          [Out(Current, "ok") EXCEPT !.content = normalizePath(input)])

ParentPath(input) ==
    Apply("parentPath", input,
          [Out(Current, "ok") EXCEPT !.content = parentPath(input)])

AncestorPaths(input) ==
    Apply("ancestorPaths", input,
          [Out(Current, "ok") EXCEPT !.entries = ancestorPaths(input)])

NextPure ==
    \/ \E input \in PathStrings : NormalizePath(input)
    \/ \E input \in PathStrings : ParentPath(input)
    \/ \E input \in PathStrings : AncestorPaths(input)

SpecPure == Init /\ [][NextPure]_vars

-----------------------------------------------------------------------------
(* glob at its ceiling: session "A" starts either empty or holding the     *)
(* MAX_GLOB_PATHS files "/0000" .. "/9999" (written there by earlier       *)
(* writes), and writes, mkdirs, removals and globs follow.                 *)

\* the 10,000 paths "/0000" .. "/9999"
BulkFiles == {<<"/", a, b, c, d>> : a, b, c, d \in Digits}

\* One more path, and one of the bulk paths.
CeilingPaths == {<<"/", "a">>, <<"/", "0", "0", "0", "0">>}

CeilingCallers == {<<"A", NoStore>>, <<"B", NoStore>>}

InitGlob ==
    /\ sessions = {[id |-> "A", is_persistent |-> FALSE]}
    /\ \E full \in BOOLEAN :
          nodes = {DirRow("A", Root)}
                    \cup (IF full THEN {FileRow("A", p, <<>>) : p \in BulkFiles}
                          ELSE {})
    /\ known = {"A"}
    /\ prev = DB({}, {}, {})
    /\ last = NoOp
    /\ steps = 0
    /\ NothingInFlight

NextGlob ==
    \/ \E c \in CeilingCallers, p \in CeilingPaths : Write(c, p, <<"x">>)
    \/ \E c \in CeilingCallers, p \in CeilingPaths : Mkdir(c, p)
    \/ \E c \in CeilingCallers, p \in CeilingPaths : Rm(c, p)
    \/ \E c \in CeilingCallers, g \in GlobPatterns : Glob(c, g)

SpecGlob == InitGlob /\ [][NextGlob]_vars

-----------------------------------------------------------------------------
(* grep over multi-line contents: session "A" starts with any of the       *)
(* contents below (or nothing) at "/_" and at "/a", and writes, mkdirs and *)
(* greps follow.                                                           *)

\* "foo123\nbar456\nfoo789\n", the content of the repository's grep test
GrepExample ==
    <<"f", "o", "o", "1", "2", "3", "\n", "b", "a", "r", "4", "5", "6", "\n",
      "f", "o", "o", "7", "8", "9", "\n">>

\* "bar\nfoo7"
GrepShort == <<"b", "a", "r", "\n", "f", "o", "o", "7">>

GrepContents == {GrepExample, GrepShort}

\* foo\d+ (the pattern of the test), ^bar, 9$
FooDigits == <<"f", "o", "o", "\\", "d", "+">>
SearchPatterns == {FooDigits, <<"^", "b", "a", "r">>, <<"9", "$">>}

GrepPaths == {<<"/", "_">>, <<"/", "a">>}
GrepFilters == {<<>>, <<"/", "a">>}

\* the rows a sequence of writes leaves: a file per path given a content
Written(ns, f) ==
    {DirRow(ns, Root)} \cup {FileRow(ns, p, f[p]) : p \in DOMAIN f}

InitGrep ==
    /\ sessions = {[id |-> "A", is_persistent |-> FALSE]}
    /\ \E ps \in SUBSET GrepPaths : \E f \in [ps -> GrepContents] :
          nodes = Written("A", f)
    /\ known = {"A"}
    /\ prev = DB({}, {}, {})
    /\ last = NoOp
    /\ steps = 0
    /\ NothingInFlight

NextGrep ==
    \/ \E c \in CeilingCallers, p \in GrepPaths, x \in GrepContents :
          Write(c, p, x)
    \/ \E c \in CeilingCallers, p \in GrepPaths : Mkdir(c, p)
    \/ \E c \in CeilingCallers, g \in SearchPatterns, f \in GrepFilters :
          Grep(c, g, f)

SpecGrep == InitGrep /\ [][NextGrep]_vars

-----------------------------------------------------------------------------
(* Concurrent callers.  An operation of VirtualFS is a sequence of storage *)
(* calls with an await before each; the operations of different callers    *)
(* interleave at these awaits.  Each statement executes atomically in the  *)
(* database.  With enableRls, query() checks a client out of the pool,     *)
(* sets app.vfs_session_id on it, runs the statement on it and releases    *)
(* it: four steps.  The statements act on the tables themselves; with      *)
(* enableRls that is what the policies let through when the setting of     *)
(* the connection is the statement's namespace (C20, C26).                 *)

\* The operations, callers, path and contents of the concurrent callers:
\* caller 1 writes "x", caller 2 writes "y".
ConcOps == {"write", "append", "mkdir"}
ConcPath == <<"/", "a">>
ConcContent(p) == IF p = 1 THEN <<"x">> ELSE <<"y">>

\* Number of namespaces the retention sweep deletes in a run.
MaxSweeps == 1

\* the statements an operation issues, as values of pc
StmtPcs == {"insSession", "insRoot", "getNode", "getDest", "parents", "final"}

\* query(): with enableRls a statement starts by checking a client out
FirstPhase == IF enableRls THEN "connect" ELSE "exec"

HasSession(S, id) == \E row \in S : row.id = id

\* the node type getNode returns, "none" for null
ExistingType(N, ns, path) ==
    LET hit == getNode(N, ns, path)
    IN  IF hit = {} THEN "none" ELSE (CHOOSE r \in hit : TRUE).node_type

\* The call of write, append, mkdir, rm or move up to its first await:
\* validatePath, the tests for the root (and, in move, for a destination
\* inside the source), and the look into knownNamespaces at the start of
\* ensureSession / ensureStore.  Calls these tests reject end at once and
\* are left out.
BeginAt(p, op, caller, path, dest) ==
    LET ns == IF caller[2] # NoStore THEN caller[2] ELSE caller[1]
        v  == validatePath(path)
        vd == validatePath(dest)
    IN  /\ procs[p].pc = "idle"
        /\ v.ok /\ v.path # Root
        /\ op = "move" =>
              /\ vd.ok /\ vd.path # Root
              /\ ~StartsWith(vd.path, v.path \o <<"/">>)
        /\ procs' = [procs EXCEPT ![p] =
              [IdleProc EXCEPT
                 !.op = op, !.sid = caller[1], !.store = caller[2], !.ns = ns,
                 !.path = v.path, !.dest = IF op = "move" THEN vd.path ELSE Root,
                 !.content = ConcContent(p),
                 !.pc = IF ns \in known THEN "getNode" ELSE "insSession",
                 !.phase = FirstPhase,
                 !.unknownAtBegin = (ns \notin known /\ ~HasSession(sessions, ns)),
                 !.absentAtBegin = (~HasSession(sessions, ns)
                                      /\ getNode(nodes, ns, Root) = {})]]
        /\ UNCHANGED <<sessions, nodes, known, prev, last, steps,
                       enableRls, conns, hist>>

\* const client = await this.pool.connect(): any client nobody holds
Connect(p, c) ==
    /\ procs[p].pc \in StmtPcs /\ procs[p].phase = "connect"
    /\ conns[c].owner = 0
    /\ conns' = [conns EXCEPT ![c].owner = p]
    /\ procs' = [procs EXCEPT ![p].conn = c, ![p].setConn = 0,
                              ![p].phase = "set"]
    /\ UNCHANGED <<sessions, nodes, known, prev, last, steps, enableRls, hist>>

\* write, append or mkdir of the one path ConcPath
Begin(p, op, caller) == BeginAt(p, op, caller, ConcPath, Root)

\* Mutant of SetConfigConn: set_config goes through pool.query, which runs
\* it on a client of its own choice.
SetConfigConn_OnPool(p) ==
    IF \E c \in ConnIds : conns[c].owner = 0
    THEN CHOOSE c \in ConnIds : conns[c].owner = 0
    ELSE procs[p].conn

\* the connection set_config runs on: the client checked out
SetConfigConn(p) == procs[p].conn

\* await client.query("SELECT set_config('app.vfs_session_id', $1, false)")
SetConfig(p) ==
    /\ procs[p].pc \in StmtPcs /\ procs[p].phase = "set"
    /\ conns' = [conns EXCEPT ![SetConfigConn(p)].setting = procs[p].ns]
    /\ procs' = [procs EXCEPT ![p].setConn = SetConfigConn(p),
                              ![p].phase = "exec"]
    /\ UNCHANGED <<sessions, nodes, known, prev, last, steps, enableRls, hist>>

\* Mutant of insertSessionStmt: INSERT without ON CONFLICT (id) DO NOTHING.
insertSessionStmt_NoOnConflict(S, id, persistent) ==
    IF HasSession(S, id) THEN [sessions |-> S, err |-> "DBERROR"]
    ELSE [sessions |-> insertSession(S, id, persistent), err |-> "ok"]

\* the INSERT of ensureSession / ensureStore and whether it raises
insertSessionStmt(S, id, persistent) ==
    [sessions |-> insertSession(S, id, persistent), err |-> "ok"]

\* Mutant of upsertFile: DO UPDATE SET content = vfs_nodes.content ||
\* EXCLUDED.content.
upsertFileStmt_Concat(N, namespaceId, path, content) ==
    appendFile(N, namespaceId, path, content)

upsertFileStmt(N, namespaceId, path, content) ==
    upsertFile(N, namespaceId, path, content)

\* Mutant of AfterFailure: ensureSession and ensureStore catch the error of
\* their statements and go on to knownNamespaces.add.
AfterFailure_CacheAnyway(pc) ==
    IF pc \in {"insSession", "insRoot"} THEN "cacheAdd" ELSE "done"

\* where a caller goes when the statement at pc rejects: the await throws,
\* nothing catches it, and the call ends with the error
AfterFailure(pc) == "done"

\* Mutant of appendFile: DO UPDATE SET content = EXCLUDED.content.
appendFileStmt_Overwrite(N, namespaceId, path, content) ==
    upsertFile(N, namespaceId, path, content)

appendFileStmt(N, namespaceId, path, content) ==
    appendFile(N, namespaceId, path, content)

\* The statement at pc of caller pr run on the tables: the tables after
\* it, the error it raises (a row of vfs_nodes must reference a row of
\* vfs_sessions), what getNode returned, and where the caller goes next.
Statement(pr) ==
    LET fk   == HasSession(sessions, pr.ns)
        base == [sessions |-> sessions, nodes |-> nodes, err |-> "ok",
                 existing |-> pr.existing, todo |-> pr.todo, then |-> "done",
                 result |-> "none"]
        fail == [base EXCEPT !.err = "DBERROR", !.result = "DBERROR",
                             !.then = AfterFailure(pr.pc)]
    IN  CASE pr.pc = "insSession" ->
               LET r == insertSessionStmt(sessions, pr.ns, pr.store # NoStore)
               IN  IF r.err # "ok" THEN fail
                   ELSE [base EXCEPT !.sessions = r.sessions, !.then = "insRoot"]
          [] pr.pc = "insRoot" ->
               IF ~fk THEN fail
               ELSE [base EXCEPT !.nodes = insertDir(nodes, pr.ns, Root),
                                 !.then = "cacheAdd"]
          [] pr.pc = "getNode" ->
               LET e == ExistingType(nodes, pr.ns, pr.path)
                   a == ancestorPaths(pr.path)
               IN  IF pr.op \in {"write", "append"} /\ e = "directory"
                   THEN [base EXCEPT !.existing = e, !.result = "EISDIR"]
                   ELSE IF pr.op = "mkdir" /\ e = "file"
                   THEN [base EXCEPT !.existing = e, !.result = "EEXIST"]
                   ELSE IF pr.op \in {"rm", "move"} /\ e = "none"
                   THEN [base EXCEPT !.existing = e, !.result = "ENOENT"]
                   ELSE IF pr.op = "rm"
                   THEN [base EXCEPT !.existing = e, !.then = "final"]
                   ELSE IF pr.op = "move"
                   THEN [base EXCEPT !.existing = e, !.then = "getDest"]
                   ELSE [base EXCEPT !.existing = e, !.todo = a,
                                     !.then = IF a = <<>> THEN "final"
                                              ELSE "parents"]
          [] pr.pc = "getDest" ->
               LET a == IF parentPath(pr.dest) # Root
                        THEN ancestorPaths(pr.dest) ELSE <<>>
               IN  IF getNode(nodes, pr.ns, pr.dest) # {}
                   THEN [base EXCEPT !.result = "EEXIST"]
                   ELSE [base EXCEPT !.todo = a,
                                     !.then = IF a = <<>> THEN "final"
                                              ELSE "parents"]
          [] pr.pc = "parents" ->
               IF ~fk THEN fail
               ELSE [base EXCEPT
                       !.nodes = insertDir(nodes, pr.ns, Head(pr.todo)),
                       !.todo = Tail(pr.todo),
                       !.then = IF Tail(pr.todo) = <<>> THEN "final"
                                ELSE "parents"]
          [] pr.pc = "final" ->
               IF pr.op = "rm"
               THEN [base EXCEPT
                       !.nodes = deleteNode(nodes, pr.ns, pr.path).nodes,
                       !.result = "ok"]
               ELSE IF pr.op = "move"
               THEN LET m == moveNode(nodes, pr.ns, pr.path, pr.dest)
                    IN  IF m.ok THEN [base EXCEPT !.nodes = m.nodes,
                                                  !.result = "ok"]
                        ELSE fail
               ELSE IF ~fk THEN fail
               ELSE [base EXCEPT
                       !.nodes =
                          CASE pr.op = "write" ->
                                 upsertFileStmt(nodes, pr.ns, pr.path, pr.content)
                            [] pr.op = "append" ->
                                 appendFileStmt(nodes, pr.ns, pr.path, pr.content)
                            [] OTHER -> insertDir(nodes, pr.ns, pr.path),
                       !.result = "ok"]

\* return await client.query(text, params), or this.pool.query(text,
\* params) without enableRls: the statement executes.
Exec(p) ==
    /\ procs[p].pc \in StmtPcs /\ procs[p].phase = "exec"
    /\ \E pr \in {procs[p]} : \E r \in {Statement(pr)} : \E c \in {pr.conn} :
        /\ sessions' = r.sessions
        /\ nodes' = r.nodes
        /\ procs' = [procs EXCEPT ![p] =
              [pr EXCEPT
                 !.existing = r.existing, !.todo = r.todo,
                 !.presentAtAccess =
                    IF pr.pc = "getNode" /\ pr.presentAtAccess = "unset"
                    THEN (IF HasSession(sessions, pr.ns)
                             /\ getNode(nodes, pr.ns, Root) # {}
                          THEN "yes" ELSE "no")
                    ELSE pr.presentAtAccess,
                 !.execConn = c,
                 !.execSetConn = pr.setConn,
                 !.execSetting = IF c = 0 THEN NoSetting ELSE conns[c].setting,
                 !.pc = IF enableRls THEN pr.pc ELSE r.then,
                 !.phase = IF enableRls THEN "release"
                           ELSE IF r.then \in StmtPcs THEN "exec" ELSE "none",
                 !.then = r.then,
                 !.pending = r.result,
                 !.result = IF enableRls THEN pr.result ELSE r.result]]
        /\ hist' = IF pr.pc = "final" /\ pr.op = "write" /\ r.err = "ok"
                   THEN [hist EXCEPT !.lastUpsert =
                           [ns |-> pr.ns, path |-> pr.path, proc |-> p]]
                   ELSE hist
        /\ UNCHANGED <<known, prev, last, steps, enableRls, conns>>

\* Mutant of Release: client.release() follows the statement inside the
\* try block, so a statement that raised leaves the client checked out.
Release_OnSuccess(p) ==
    LET pr == procs[p]
    IN  /\ pr.pc \in StmtPcs /\ pr.phase = "release"
        /\ conns' = IF pr.pending = "DBERROR" THEN conns
                    ELSE [conns EXCEPT ![pr.conn].owner = 0]
        /\ procs' = [procs EXCEPT ![p] =
              [pr EXCEPT !.conn = 0, !.pc = pr.then,
                         !.phase = IF pr.then \in StmtPcs THEN "connect"
                                   ELSE "none",
                         !.result = pr.pending]]
        /\ UNCHANGED <<sessions, nodes, known, prev, last, steps,
                       enableRls, hist>>

\* finally { client.release() }: the client goes back to the pool as it
\* is, and the caller goes on (or ends with the result or the error).
Release(p) ==
    LET pr == procs[p]
    IN  /\ pr.pc \in StmtPcs /\ pr.phase = "release"
        /\ conns' = [conns EXCEPT ![pr.conn].owner = 0]
        /\ procs' = [procs EXCEPT ![p] =
              [pr EXCEPT !.conn = 0, !.pc = pr.then,
                         !.phase = IF pr.then \in StmtPcs THEN "connect"
                                   ELSE "none",
                         !.result = pr.pending]]
        /\ UNCHANGED <<sessions, nodes, known, prev, last, steps,
                       enableRls, hist>>

\* this.knownNamespaces.add(id), after both provisioning statements
CacheAdd(p) ==
    /\ procs[p].pc = "cacheAdd"
    /\ known' = known \cup {procs[p].ns}
    /\ procs' = [procs EXCEPT ![p].pc = "getNode", ![p].phase = FirstPhase]
    /\ UNCHANGED <<sessions, nodes, prev, last, steps, enableRls, conns, hist>>

\* The retention sweep, which is not part of the server: it deletes the
\* row of an ephemeral namespace, and ON DELETE CASCADE deletes its nodes.
\* knownNamespaces, in the memory of the server, keeps the id.
Sweep(id) ==
    /\ Cardinality(hist.swept) < MaxSweeps
    /\ \E row \in sessions : row.id = id /\ ~row.is_persistent
    /\ sessions' = {row \in sessions : row.id # id}
    /\ nodes' = {r \in nodes : r.session_id # id}
    /\ hist' = [hist EXCEPT !.swept = @ \cup {id}]
    /\ procs' = [p \in Procs |->
                  IF procs[p].ns = id /\ procs[p].pc \notin {"idle", "done"}
                  THEN [procs[p] EXCEPT !.sweptDuring = TRUE]
                  ELSE procs[p]]
    /\ UNCHANGED <<known, prev, last, steps, enableRls, conns>>

InitConc ==
    /\ sessions = {}
    /\ nodes = {}
    /\ known = {}
    /\ prev = DB({}, {}, {})
    /\ last = NoOp
    /\ steps = 0
    /\ enableRls \in BOOLEAN
    /\ procs = [p \in Procs |-> IdleProc]
    /\ conns = [c \in ConnIds |-> FreshConn]
    /\ hist = [swept |-> {}, lastUpsert |-> NoUpsert, listedOn |-> NoSetting]

NextConc ==
    \/ \E p \in Procs, op \in ConcOps, caller \in Callers : Begin(p, op, caller)
    \/ \E p \in Procs, c \in ConnIds : Connect(p, c)
    \/ \E p \in Procs : SetConfig(p)
    \/ \E p \in Procs : Exec(p)
    \/ \E p \in Procs : Release(p)
    \/ \E p \in Procs : CacheAdd(p)
    \/ \E id \in {c[1] : c \in Callers} : Sweep(id)

SpecConc == InitConc /\ [][NextConc]_vars

\* ---------------------------------------------------------------------
\* The isolation mode with a pool of PoolSize clients: every statement of
\* mkdir checks a client out, may fail on set_config or on the statement,
\* and releases the client; listStores goes through pool.query.

PoolSize == 1
PoolConns == 1..PoolSize
PoolOps == {"mkdir"}
PoolCallers == {<<"A", NoStore>>, <<"B", "A">>}

\* await client.query("SELECT set_config(...)") rejects (the connection
\* broke, the statement timed out): control passes to the finally block
\* and the error is thrown on to the caller.
SetConfigFails(p) ==
    /\ procs[p].pc \in StmtPcs /\ procs[p].phase = "set"
    /\ procs' = [procs EXCEPT ![p].phase = "release",
                              ![p].then = AfterFailure(procs[p].pc),
                              ![p].pending = "DBERROR"]
    /\ UNCHANGED <<sessions, nodes, known, prev, last, steps, enableRls,
                   conns, hist>>

\* listStores: query() without a namespace id is this.pool.query, which
\* runs the statement on any idle client, as that client was left.
ListStoresOnPool(c) ==
    /\ conns[c].owner = 0
    /\ last' = [NoOp EXCEPT
                  !.op = "listStores",
                  !.entries = listStores(RlsSessions(conns[c].setting, sessions))]
    /\ hist' = [hist EXCEPT !.listedOn = conns[c].setting]
    /\ prev' = Current
    /\ UNCHANGED <<sessions, nodes, known, steps, enableRls, procs, conns>>

InitPool ==
    /\ sessions = {}
    /\ nodes = {}
    /\ known = {}
    /\ prev = DB({}, {}, {})
    /\ last = NoOp
    /\ steps = 0
    /\ enableRls = TRUE
    /\ procs = [p \in Procs |-> IdleProc]
    /\ conns = [c \in ConnIds |-> FreshConn]
    /\ hist = [swept |-> {}, lastUpsert |-> NoUpsert, listedOn |-> NoSetting]

\* what the event loop runs for caller p once its call has begun
PoolStep(p) ==
    \/ \E c \in PoolConns : Connect(p, c)
    \/ SetConfig(p)
    \/ SetConfigFails(p)
    \/ Exec(p)
    \/ Release(p)
    \/ CacheAdd(p)

NextPool ==
    \/ \E p \in Procs, op \in PoolOps, caller \in PoolCallers : Begin(p, op, caller)
    \/ \E p \in Procs : PoolStep(p)
    \/ \E c \in PoolConns : ListStoresOnPool(c)
    \/ \E id \in {c[1] : c \in PoolCallers} : Sweep(id)

SpecPool == InitPool /\ [][NextPool]_vars

\* The calls of one session, without listStores.
FairCaller == <<"A", NoStore>>

NextPoolFair ==
    \/ \E p \in Procs, op \in PoolOps : Begin(p, op, FairCaller)
    \/ \E p \in Procs : PoolStep(p)
    \/ Sweep(FairCaller[1])

\* Every continuation that can run is run: a promise that settled is
\* followed by the code awaiting it, and the pool hands a free client to
\* a waiting caller.
PoolFairness == \A p \in Procs : WF_vars(PoolStep(p))

SpecPoolFair == InitPool /\ [][NextPoolFair]_vars /\ PoolFairness

\* ---------------------------------------------------------------------
\* Two callers of one provisioned namespace whose storage calls interleave:
\* write, append, mkdir, rm and move over a tree of two levels.

RaceNs == "A"
RaceCaller == <<RaceNs, NoStore>>
RaceOps == {"write", "append", "mkdir", "rm"}
RacePaths == {<<"/", "a">>, <<"/", "a", "/", "a">>, <<"/", "b">>}

\* source and destination of the moves: neither lies inside the other
RaceMoves ==
    {m \in RacePaths \X RacePaths :
        /\ m[1] # m[2]
        /\ ~StartsWith(m[1], m[2] \o <<"/">>)
        /\ ~StartsWith(m[2], m[1] \o <<"/">>)}

\* The trees the callers find: each is left by mkdir and write called one
\* after the other on the empty namespace.
RaceTrees ==
    LET root == {DirRow(RaceNs, Root)}
        dirA == root \cup {DirRow(RaceNs, <<"/", "a">>)}
    IN  {root,
         dirA,
         dirA \cup {FileRow(RaceNs, <<"/", "a", "/", "a">>, <<"z">>)},
         root \cup {FileRow(RaceNs, <<"/", "a">>, <<"z">>)},
         dirA \cup {FileRow(RaceNs, <<"/", "b">>, <<"z">>)}}

InitRace ==
    /\ sessions = insertSession({}, RaceNs, FALSE)
    /\ nodes \in RaceTrees
    /\ known = {RaceNs}
    /\ prev = DB(sessions, nodes, known)
    /\ last = NoOp
    /\ steps = 0
    /\ enableRls = FALSE
    /\ procs = [p \in Procs |-> IdleProc]
    /\ conns = [c \in ConnIds |-> FreshConn]
    /\ hist = [swept |-> {}, lastUpsert |-> NoUpsert, listedOn |-> NoSetting]

NextRace ==
    \/ \E p \in Procs, op \in RaceOps, path \in RacePaths :
          BeginAt(p, op, RaceCaller, path, Root)
    \/ \E p \in Procs, m \in RaceMoves : BeginAt(p, "move", RaceCaller, m[1], m[2])
    \/ \E p \in Procs : Exec(p)

SpecRace == InitRace /\ [][NextRace]_vars

-----------------------------------------------------------------------------
(* Vocabulary of the properties                                            *)

\* the rows of one namespace
NodesOf(N, ns) == {r \in N : r.session_id = ns}

\* the namespace the arguments of the last operation name
TargetNs(l) == IF l.store # NoStore THEN l.store ELSE l.sid

\* every namespace id that occurs
NsIds == {c[1] : c \in Callers} \cup ({c[2] : c \in Callers} \ {NoStore})

OpOk(op) == last.op = op /\ last.err = "ok"

\* the last operation was given a path that validatePath rejects
Rejected == last.err = "PathError"

\* the rows of N in namespace ns at path or at path + "/" + r
Subtree(N, ns, path) ==
    {r \in N : /\ r.session_id = ns
               /\ (r.path = path \/ StartsWith(r.path, path \o <<"/">>))}

\* row r with the prefix src of its path replaced by dest
Relocated(r, src, dest) == [r EXCEPT !.path = dest \o Substr(r.path, Len(src) + 1)]

\* the operation l run on backend state db
Replay(db, l) ==
    CASE l.op = "stat"   -> vfs_stat(db, l.sid, l.path, l.store)
      [] l.op = "read"   -> vfs_read(db, l.sid, l.path, l.store)
      [] l.op = "write"  -> vfs_write(db, l.sid, l.path, l.arg, l.store)
      [] l.op = "append" -> vfs_append(db, l.sid, l.path, l.arg, l.store)
      [] l.op = "ls"     -> vfs_ls(db, l.sid, l.path, l.store)
      [] l.op = "mkdir"  -> vfs_mkdir(db, l.sid, l.path, l.store)
      [] l.op = "rm"     -> vfs_rm(db, l.sid, l.path, l.store)
      [] l.op = "move"   -> vfs_move(db, l.sid, l.path, l.dest, l.store)
      [] l.op = "glob"   -> vfs_glob(db, l.sid, l.arg, l.store)
      [] l.op = "grep"   -> vfs_grep(db, l.sid, l.arg, l.path, l.store)
      [] l.op = "listStores" ->
             [Out(db, "ok") EXCEPT !.entries = listStores(db.sessions)]
      [] OTHER           -> Out(db, "ok")

\* r returned what the last operation returned
SameResult(r, l) ==
    /\ r.err = l.err
    /\ r.content = l.content
    /\ r.count = l.count
    /\ r.flag = l.flag
    /\ r.type = l.type
    /\ r.entries = l.entries

\* Model validity: no move executed alone meets a transient conflict of the
\* unique constraint, so moveNode's outcome is independent of the row order.
MoveOrderIndependent ==
    \A c \in Callers, src \in PathInputs \ {Root}, dest \in PathInputs \ {Root} :
        LET ns == TargetNs([store |-> c[2], sid |-> c[1]])
        IN  (/\ ~StartsWith(dest, src \o <<"/">>)
             /\ getNode(nodes, ns, src) # {}
             /\ getNode(nodes, ns, dest) = {})
            => ~MoveTransientConflict(ensureParents(nodes, ns, dest), ns, src, dest)

-----------------------------------------------------------------------------
(* Properties                                                              *)

C2_StoreSeparateFromSessions ==
    \A s \in prev.sessions :
        /\ (last.store # NoStore /\ ~s.is_persistent)
              => NodesOf(nodes, s.id) = NodesOf(prev.nodes, s.id)
        /\ (last.op # "init" /\ last.store = NoStore /\ s.is_persistent)
              => NodesOf(nodes, s.id) = NodesOf(prev.nodes, s.id)

\* C3: after a successful write(p, c), read(p) in the same namespace returns
\* exactly c, whatever the path held before.
C3_WriteReadRoundTrip ==
    OpOk("write") =>
        LET r == vfs_read(Current, last.sid, last.path, last.store)
        IN  r.err = "ok" /\ r.content = last.arg

\* C3 witness: a file holding "x" is overwritten with the empty string and
\* still exists.
C3_Witness ==
    /\ OpOk("write") /\ last.arg = <<>>
    /\ FileRow(last.ns, last.path, <<"x">>) \in prev.nodes
    /\ FileRow(last.ns, last.path, <<>>) \in nodes

\* C4 (as claimed): after a successful move(src, dest) every node formerly
\* at src or below it is at dest or below it with its type and content, and
\* no node remains at src or below it.
C4_MovePreservesSubtree ==
    OpOk("move") =>
        LET old == Subtree(prev.nodes, last.ns, last.path)
        IN  /\ \A r \in old : Relocated(r, last.path, last.dest) \in nodes
            /\ Subtree(nodes, last.ns, last.path) = {}
            /\ vfs_ls(Current, last.sid, last.path, last.store).err = "ENOENT"

\* C5 (as claimed): whatever a move did, the subtree it was asked to move is
\* entirely at src or entirely at dest.
C5_MoveAllOrNothing ==
    last.op = "move" /\ last.ns # "" =>
        LET old == Subtree(prev.nodes, last.ns, last.path)
        IN  \/ \A r \in old : r \in nodes
            \/ \A r \in old : /\ r \notin nodes
                              /\ Relocated(r, last.path, last.dest) \in nodes

\* C6 (as claimed): a successful rm(p) deletes p and every node below it and
\* returns their number, after which stat reports each of them absent; rm
\* of an absent path fails with ENOENT.
C6_RmDeletesSubtree ==
    /\ OpOk("rm") =>
          LET old == Subtree(prev.nodes, last.ns, last.path)
          IN  /\ last.count = Cardinality(old)
              /\ \A r \in old :
                    ~vfs_stat(Current, last.sid, r.path, last.store).flag
    /\ (last.op = "rm" /\ ~Rejected /\ last.path # Root
          /\ getNode(prev.nodes, TargetNs(last), last.path) = {})
          => last.err = "ENOENT"

\* C7 (as claimed): the parent path of every non-root node holds a
\* directory.
C7_ParentIsDirectory ==
    \A r \in nodes :
        r.path # Root => IsDir(getNode(nodes, r.session_id, parentPath(r.path)))

\* C8 (as claimed): write and append on any path occupied by a directory
\* fail with EISDIR.
C8_WriteOnDirectoryIsEISDIR ==
    (last.op \in {"write", "append"}
        /\ IsDir(getNode(prev.nodes, TargetNs(last), last.path)))
        => last.err = "EISDIR"

\* C8 (amended): no operation changes the type of a node that stays at its
\* path; write and append on a non-root directory fail with EISDIR (on the
\* root with EINVAL), mkdir on a file with EEXIST, read of a directory with
\* EISDIR and ls of a file with ENOTDIR, and each leaves every node as it was.
C8_NoTypeChangeInPlace ==
    /\ \A r \in prev.nodes, q \in nodes :
          (q.session_id = r.session_id /\ q.path = r.path)
              => q.node_type = r.node_type
    /\ LET hit == getNode(prev.nodes, TargetNs(last), last.path)
       IN  /\ (last.op \in {"write", "append"} /\ last.path # Root /\ IsDir(hit))
                 => (last.err = "EISDIR" /\ nodes = prev.nodes)
           /\ (last.op \in {"write", "append"} /\ last.path = Root)
                 => (last.err = "EINVAL" /\ nodes = prev.nodes)
           /\ (last.op = "mkdir" /\ IsFile(hit))
                 => (last.err = "EEXIST" /\ nodes = prev.nodes)
           /\ (last.op = "read" /\ IsDir(hit))
                 => (last.err = "EISDIR" /\ nodes = prev.nodes)
           /\ (last.op = "ls" /\ IsFile(hit))
                 => (last.err = "ENOTDIR" /\ nodes = prev.nodes)

\* C8 witness: a write on an existing non-root directory was refused and the
\* directory is still there.
C8_Witness ==
    /\ last.op = "write" /\ last.err = "EISDIR" /\ last.path # Root
    /\ DirRow(last.ns, last.path) \in prev.nodes
    /\ DirRow(last.ns, last.path) \in nodes

\* C9: every namespace with a row in vfs_sessions has exactly one node at
\* "/", a directory; rm, move, write and append on "/" (their arguments
\* being paths that pass validation) fail with EINVAL and ls of "/" succeeds.
C9_RootDirectory ==
    /\ \A s \in sessions : getNode(nodes, s.id, Root) = {DirRow(s.id, Root)}
    /\ (last.op \in {"rm", "write", "append"} /\ last.path = Root)
          => last.err = "EINVAL"
    /\ (last.op = "move" /\ ~Rejected /\ (last.path = Root \/ last.dest = Root))
          => last.err = "EINVAL"
    /\ (last.op = "ls" /\ last.path = Root) => last.err = "ok"

\* C9 witness: ls of "/" succeeded on a namespace that had no row before.
C9_Witness ==
    /\ OpOk("ls") /\ last.path = Root
    /\ \A s \in prev.sessions : s.id # last.ns
    /\ DirRow(last.ns, Root) \in nodes

\* C10: mkdir(p) on an absent non-root path reports already_existed = false
\* and creates p and its missing ancestors as directories and nothing else;
\* mkdir(p) repeated right after a successful mkdir(p) reports
\* already_existed = true and leaves the table as it is, with one node at p.
C10_MkdirIdempotent ==
    (last.op = "mkdir" /\ ~Rejected /\ last.path # Root) =>
        LET t         == TargetNs(last)
            ancestors == ancestorPaths(last.path)
            again     == vfs_mkdir(Current, last.sid, last.path, last.store)
        IN  /\ getNode(prev.nodes, t, last.path) = {} =>
                  /\ last.err = "ok" /\ last.flag = FALSE
                  /\ DirRow(t, last.path) \in nodes
                  /\ \A i \in DOMAIN ancestors :
                        /\ getNode(nodes, t, ancestors[i]) # {}
                        /\ getNode(prev.nodes, t, ancestors[i]) = {}
                              => DirRow(t, ancestors[i]) \in nodes
                  /\ prev.nodes \subseteq nodes
                  /\ \A r \in nodes \ prev.nodes :
                        /\ r.session_id = t
                        /\ \/ r.path = last.path
                           \/ \E i \in DOMAIN ancestors : r.path = ancestors[i]
            /\ last.err = "ok" =>
                  /\ again.err = "ok" /\ again.flag = TRUE
                  /\ again.db.nodes = nodes
                  /\ Cardinality(getNode(nodes, t, last.path)) = 1

\* C10 witness: mkdir of a two-segment path whose parent was missing.
C10_Witness ==
    /\ OpOk("mkdir") /\ last.flag = FALSE /\ Len(last.path) = 4
    /\ getNode(prev.nodes, last.ns, parentPath(last.path)) = {}
    /\ DirRow(last.ns, parentPath(last.path)) \in nodes
    /\ DirRow(last.ns, last.path) \in nodes


\* C11: a successful append(p, c) on an absent path creates the file p with
\* content c and every missing ancestor as a directory; on a file with
\* content x it leaves x followed by c, which read(p) then returns (so a
\* write of c0 followed by appends returns c0 followed by what was appended);
\* no other row changes.
C11_AppendConcatenates ==
    OpOk("append") =>
        LET t         == last.ns
            before    == getNode(prev.nodes, t, last.path)
            old       == IF before = {} THEN <<>> ELSE ContentOf(before)
            ancestors == ancestorPaths(last.path)
            r         == vfs_read(Current, last.sid, last.path, last.store)
        IN  /\ getNode(nodes, t, last.path) = {FileRow(t, last.path, old \o last.arg)}
            /\ r.err = "ok" /\ r.content = old \o last.arg
            /\ \A i \in DOMAIN ancestors :
                  /\ getNode(nodes, t, ancestors[i]) # {}
                  /\ getNode(prev.nodes, t, ancestors[i]) = {}
                        => DirRow(t, ancestors[i]) \in nodes
            /\ \A x \in prev.nodes :
                  (x.session_id # t \/ x.path # last.path) => x \in nodes

\* C11 witness: append of "x" to a file that held "x" leaves "xx".
C11_Witness ==
    /\ OpOk("append") /\ last.arg = <<"x">>
    /\ FileRow(last.ns, last.path, <<"x">>) \in prev.nodes
    /\ FileRow(last.ns, last.path, <<"x", "x">>) \in nodes

\* C11 witness of the other case: append to an absent two-segment path
\* created the file and its parent directory.
C11_WitnessFresh ==
    /\ OpOk("append") /\ last.arg = <<"x">> /\ Len(last.path) = 4
    /\ NodesOf(prev.nodes, last.ns) = {}
    /\ DirRow(last.ns, parentPath(last.path)) \in nodes
    /\ FileRow(last.ns, last.path, <<"x">>) \in nodes
Range(f) == {f[i] : i \in DOMAIN f}

\* C13: a move whose arguments pass validation fails with EINVAL if src or
\* dest is "/" or src is a proper ancestor of dest; otherwise with ENOENT if
\* src is absent; otherwise with EEXIST if a node is at dest (dest = src
\* included); it fails with none of the three when none of these holds.  A
\* move that fails so leaves every row as it was and inserts no row (but the
\* root that provisioning gives a namespace on its first use), and one that
\* fails with EINVAL does not reach the backend at all.
C13_MoveErrorOrder ==
    (last.op = "move" /\ ~Rejected) =>
        LET t        == TargetNs(last)
            src      == last.path
            dest     == last.dest
            invalid  == \/ src = Root \/ dest = Root
                        \/ src \in Range(ancestorPaths(dest))
            noSrc    == getNode(prev.nodes, t, src) = {}
            occupied == getNode(prev.nodes, t, dest) # {}
            expected == IF invalid THEN "EINVAL"
                        ELSE IF noSrc THEN "ENOENT"
                        ELSE IF occupied THEN "EEXIST"
                        ELSE "none"
        IN  /\ expected # "none" => last.err = expected
            /\ expected = "none" => last.err \notin {"EINVAL", "ENOENT", "EEXIST"}
            /\ last.err = "EINVAL" => Current = prev
            /\ last.err \in {"ENOENT", "EEXIST"} =>
                  /\ prev.nodes \subseteq nodes
                  /\ \A r \in nodes \ prev.nodes :
                        /\ r = DirRow(t, Root)
                        /\ \A x \in prev.sessions : x.id # t

\* C13 witness: a move of an existing directory onto itself failed with
\* EEXIST and the table is as before.
C13_Witness ==
    /\ last.op = "move" /\ last.err = "EEXIST"
    /\ last.path = last.dest
    /\ DirRow(last.ns, last.path) \in prev.nodes
    /\ nodes = prev.nodes

\* C13 witness of the order: a move from an absent source to an occupied
\* destination failed with ENOENT.
C13_WitnessOrder ==
    /\ last.op = "move" /\ last.err = "ENOENT"
    /\ getNode(prev.nodes, last.ns, last.dest) # {}
    /\ nodes = prev.nodes
\* the rows of N in namespace ns whose parent path is dir
ChildrenOf(N, ns, dir) ==
    {r \in N : r.session_id = ns /\ r.path # Root /\ parentPath(r.path) = dir}

\* C14 (as claimed): a successful ls(d) has exactly one entry (final
\* segment, type) for each node whose parent path is d and no other entry,
\* and stat(d).children of a directory d is the number of those nodes.
C14_LsImmediateChildren ==
    /\ OpOk("ls") =>
          LET kids == ChildrenOf(nodes, last.ns, last.path)
          IN  /\ Len(last.entries) = Cardinality(kids)
              /\ \A r \in kids :
                    \E i \in DOMAIN last.entries :
                        last.entries[i] = [name |-> basename(r.path),
                                           type |-> r.node_type]
    /\ (OpOk("stat") /\ last.type = "directory") =>
          last.count = Cardinality(ChildrenOf(nodes, last.ns, last.path))
\* the only rows an operation on namespace t added are the root of t, given
\* to t by provisioning on its first use, and no row was removed or changed
OnlyProvisioned(t) ==
    /\ prev.nodes \subseteq nodes
    /\ \A r \in nodes \ prev.nodes :
          r = DirRow(t, Root) /\ \A x \in prev.sessions : x.id # t

\* C15: stat of a path that passes validation never fails: it reports
\* exists = false when no node is at the path, type file and the length of
\* the content for a file, type directory and a number of children for a
\* directory, and it changes no node; read and ls of the same absent path
\* fail with ENOENT.
C15_StatNeverFails ==
    /\ (last.op = "stat" /\ ~Rejected) =>
          LET t    == TargetNs(last)
              node == getNode(prev.nodes, t, last.path)
              root == last.path = Root  \* present once t is provisioned
          IN  /\ last.err = "ok"
              /\ OnlyProvisioned(t)
              /\ (node = {} /\ ~root) => (~last.flag /\ last.type = "")
              /\ \A r \in node :
                    /\ last.flag
                    /\ last.type = r.node_type
                    /\ r.node_type = "file" =>
                          last.count = (IF r.content = NULL THEN 0 ELSE Len(r.content))
              /\ root => (last.flag /\ last.type = "directory")
              /\ last.count \in Nat
    /\ (last.op \in {"read", "ls"} /\ ~Rejected /\ last.path # Root
          /\ getNode(prev.nodes, TargetNs(last), last.path) = {})
          => last.err = "ENOENT"

\* C15 witness: stat of an absent path in a namespace holding a file
\* reported exists = false and left the table as it was.
C15_Witness ==
    /\ OpOk("stat") /\ ~last.flag
    /\ \E r \in prev.nodes : r.session_id = last.ns /\ r.node_type = "file"
    /\ getNode(prev.nodes, last.ns, last.path) = {}
    /\ nodes = prev.nodes

\* C15 witness of the size: stat of a file holding "x" reported size 1.
C15_WitnessSize ==
    /\ OpOk("stat") /\ last.type = "file" /\ last.count = 1
    /\ FileRow(last.ns, last.path, <<"x">>) \in nodes
\* the string holds a character of the range \x00-\x1f
HasControlChar(str) == \E i \in 1..Len(str) : str[i] \in ControlChars

PathOps == {"stat", "read", "write", "append", "ls", "mkdir", "rm", "move"}

\* the last operation was given a malformed path argument
BadPathGiven ==
    /\ last.op \in PathOps
    /\ \/ HasControlChar(last.path)
       \/ last.op = "move" /\ HasControlChar(last.dest)

\* the last operation was a grep with a pattern new RegExp does not accept
BadPatternGiven == last.op = "grep" /\ \E i \in 1..Len(last.arg) : last.arg[i] = "["

\* C16: an operation given a malformed path (either argument of move
\* included) or a grep given an uncompilable pattern is rejected with the
\* backend exactly as it was: no namespace provisioned (no row in
\* vfs_sessions, no cache entry) and no node created, changed or deleted.
C16_ValidationBeforeStorage ==
    /\ BadPathGiven => (last.err = "PathError" /\ Current = prev)
    /\ BadPatternGiven => (last.err = "EINVAL" /\ Current = prev)

\* C16 witness: a move of an existing node to a malformed destination, by a
\* caller whose namespace is not provisioned, was rejected and provisioned
\* nothing.
C16_Witness ==
    /\ last.op = "move" /\ Rejected
    /\ HasControlChar(last.dest) /\ ~HasControlChar(last.path)
    /\ \E r \in prev.nodes : r.path = last.path /\ r.path # Root
    /\ TargetNs(last) \notin known
    /\ \A x \in sessions : x.id # TargetNs(last)
    /\ Current = prev

\* C16 witness for grep: an uncompilable pattern from a caller whose
\* namespace is not provisioned.
C16_WitnessGrep ==
    /\ BadPatternGiven /\ last.err = "EINVAL"
    /\ prev.nodes # {}
    /\ TargetNs(last) \notin known
    /\ Current = prev
\* C17 (as claimed): an operation given a malformed path is answered by the
\* adapter with an error result of kind EINVAL.
C17_MalformedPathIsEINVAL ==
    BadPathGiven =>
        LET t == toolResult(last)
        IN  t.kind = "result" /\ t.isError /\ t.code = "EINVAL"
\* the number of segments of the normalized form of a path without dots
DepthOf(input) == Cardinality({i \in 1..Len(input) :
                      /\ input[i] # "/"
                      /\ (i = 1 \/ input[i - 1] = "/")})

\* C18 (as claimed): validatePath rejects every path of more than 50
\* segments and accepts a path of exactly 50 segments, returning it
\* normalized.
C18_DepthLimit ==
    last.op = "validatePath" =>
        /\ DepthOf(last.path) > 50 => last.err = "PathError"
        /\ DepthOf(last.path) = 50 =>
              (last.err = "ok" /\ last.content = DeepPath(50))
\* C19 (as claimed): listStores returns the ids of the persistent
\* namespaces, each once, in ascending order; after a successful operation
\* with store = s the list holds s; an id used only as a session id is not
\* in it.
C19_ListStores ==
    LET list == listStores(sessions)
    IN  /\ Range(list) = {x.id : x \in {y \in sessions : y.is_persistent}}
        /\ \A i, j \in DOMAIN list : i < j => IdRank(list[i]) < IdRank(list[j])
        /\ (last.err = "ok" /\ last.store # NoStore) => last.store \in Range(list)
        /\ \A c \in Callers :
              (\A d \in Callers : d[2] # c[1]) => c[1] \notin Range(list)
\* the namespace id is that of a persistent namespace of table S
Persistent(S, id) == \E x \in S : x.id = id /\ x.is_persistent

\* the values the filter variable takes: every namespace id, and not set
FilterValues == NsIds \cup {NoSetting}

\* C20: with row level security on, a statement whose filter variable is v
\* sees (and may write) a node row only if the row's namespace id is v or
\* the row's namespace is persistent; with the variable not set it sees no
\* row of an ephemeral namespace; the rows of a persistent namespace are
\* seen under every value.  The last operation, whose statements run with
\* the variable set to its namespace id, returns and writes the same when
\* it is run on the rows it sees alone, touches no row it does not see, and
\* every row it wrote passes the policy's WITH CHECK.
C20_RowLevelIsolation ==
    /\ \A v \in FilterValues : \A r \in RlsNodes(v, nodes, sessions) :
          r.session_id = v \/ Persistent(sessions, r.session_id)
    /\ \A r \in RlsNodes(NoSetting, nodes, sessions) : Persistent(sessions, r.session_id)
    /\ \A v \in FilterValues : \A r \in nodes :
          Persistent(sessions, r.session_id) => r \in RlsNodes(v, nodes, sessions)
    /\ last.op # "init" =>
          LET v      == queryVariable(TargetNs(last))
              seenN  == RlsNodes(v, prev.nodes, prev.sessions)
              seenS  == RlsSessions(v, prev.sessions)
              r      == Replay(DB(seenS, seenN, prev.known), last)
          IN  /\ SameResult(r, last)
              /\ r.db.nodes \cup (prev.nodes \ seenN) = nodes
              /\ r.db.sessions \cup (prev.sessions \ seenS) = sessions
              /\ \A x \in nodes \ prev.nodes : vfs_nodes_isolation(v, x, sessions)
              /\ \A x \in sessions \ prev.sessions : vfs_sessions_isolation(v, x)

\* C20 witness: session B read a path at which the ephemeral namespace of
\* session A holds a file; the row is not among those B's statement sees and
\* the read failed with ENOENT.
C20_Witness ==
    /\ last.op = "read" /\ last.err = "ENOENT" /\ last.ns = "B"
    /\ \E r \in nodes :
          /\ r.session_id = "A" /\ r.node_type = "file" /\ r.path = last.path
          /\ ~Persistent(sessions, "A")
          /\ r \notin RlsNodes(queryVariable(last.ns), nodes, sessions)
          /\ r \in RlsNodes(queryVariable("A"), nodes, sessions)

\* C20 witness for a store: a file of the persistent namespace A, written
\* through store = "A", is among the rows a statement of session B sees.
C20_WitnessStore ==
    /\ last.op # "init" /\ last.ns = "B" /\ last.store = NoStore
    /\ Persistent(sessions, "A")
    /\ \E r \in nodes :
          /\ r.session_id = "A" /\ r.node_type = "file"
          /\ r \in RlsNodes(queryVariable("B"), nodes, sessions)
          /\ r \in RlsNodes(NoSetting, nodes, sessions)
\* C21: glob fails with EINVAL exactly when the resolved namespace holds
\* more than 10,000 files (directories and the files of other namespaces do
\* not count, exactly 10,000 files are accepted), whatever the pattern; it
\* then returns nothing; otherwise it returns only paths of files of that
\* namespace.
FilesOf(N, ns) == {r \in NodesOf(N, ns) : r.node_type = "file"}

C21_GlobCeiling ==
    last.op = "glob" =>
        /\ last.ns = TargetNs(last)
        /\ last.err \in {"ok", "EINVAL"}
        /\ last.err = "EINVAL" <=> Cardinality(FilesOf(prev.nodes, last.ns)) > 10000
        /\ last.err = "EINVAL" => last.entries = <<>>
        /\ last.err = "ok" =>
              \A i \in 1..Len(last.entries) :
                  \E r \in FilesOf(prev.nodes, last.ns) : r.path = last.entries[i]
        /\ nodes \ {DirRow(last.ns, Root)} = prev.nodes \ {DirRow(last.ns, Root)}

\* glob refused: the namespace holds 10,001 files.
C21_Witness ==
    /\ last.op = "glob"
    /\ last.err = "EINVAL"
    /\ Cardinality(FilesOf(prev.nodes, last.ns)) = 10001

\* glob accepted at the ceiling: exactly 10,000 files next to a directory
\* other than the root, and all 10,000 paths returned.
C21_WitnessAtCeiling ==
    /\ last.op = "glob"
    /\ last.err = "ok"
    /\ Cardinality(FilesOf(prev.nodes, last.ns)) = 10000
    /\ DirRow(last.ns, <<"/", "a">>) \in prev.nodes
    /\ Len(last.entries) = 10000

\* C22: every match grep returns is a line that matches the pattern in a
\* file of the namespace, with the file's path, the 1-based index of the
\* line in the content split on "\n" and the line text; the matches are
\* ordered by path and then by line number, so no line is reported twice;
\* and foo\d+ on the lines foo123, bar456, foo789 gives exactly the lines 1
\* and 3.
GrepHit(e, N, ns, pattern) ==
    \E r \in FilesOf(N, ns) :
        /\ r.path = e.path
        /\ LET lines == Split(r.content, "\n")
           IN  /\ e.lineNumber \in 1..Len(lines)
               /\ e.line = lines[e.lineNumber]
               /\ RegexMatch(e.line, pattern)

\* the grep path filter of the last operation lets path through
PassesFilter(path) ==
    last.path = <<>> \/ Like(path, SqlPathFilter(last.path))

C22_GrepMatches ==
    OpOk("grep") =>
        /\ \A i \in 1..Len(last.entries) :
              GrepHit(last.entries[i], prev.nodes, last.ns, last.arg)
        /\ \A i, j \in 1..Len(last.entries) :
              i < j =>
                \/ PathLess(last.entries[i].path, last.entries[j].path)
                \/ /\ last.entries[i].path = last.entries[j].path
                   /\ last.entries[i].lineNumber < last.entries[j].lineNumber
        /\ \A r \in FilesOf(prev.nodes, last.ns) :
              (r.content = GrepExample /\ last.arg = FooDigits
                 /\ PassesFilter(r.path)) =>
                SelectSeq(last.entries, LAMBDA e : e.path = r.path)
                  = << [path |-> r.path, lineNumber |-> 1,
                        line |-> <<"f", "o", "o", "1", "2", "3">>],
                       [path |-> r.path, lineNumber |-> 3,
                        line |-> <<"f", "o", "o", "7", "8", "9">>] >>

\* grep for foo\d+ returned matches from two files, the example among them.
C22_Witness ==
    /\ OpOk("grep")
    /\ last.arg = FooDigits
    /\ \E i, j \in 1..Len(last.entries) :
          last.entries[i].path # last.entries[j].path
    /\ \E r \in FilesOf(prev.nodes, last.ns) : r.content = GrepExample
    /\ Len(last.entries) >= 3

\* C23: normalizePath is idempotent; its result starts with "/", has no
\* empty, "." or ".." segment and no trailing "/" unless it is the root;
\* and a ".." that would climb above the root has no effect: "/../" put
\* before the input does not change the result (normalizePath has no
\* failing outcome).
C23_NormalizeIdempotent ==
    last.op = "normalizePath" =>
        LET n == last.content
        IN  /\ last.err = "ok"
            /\ normalizePath(n) = n
            /\ n # <<>> /\ Head(n) = "/"
            /\ n # Root =>
                  /\ n[Len(n)] # "/"
                  /\ \A seg \in Range(Tail(SplitSlash(n))) :
                        seg \notin {<<>>, <<".">>, <<".", ".">>}
            /\ normalizePath(<<"/", ".", ".", "/">> \o last.path) = n

\* normalizePath changed its input: segments were dropped and a ".."
\* climbed above the root.
C23_Witness ==
    /\ last.op = "normalizePath"
    /\ last.path = <<"/", ".", ".", "/", "a">>
    /\ last.content = <<"/", "a">>

\* a trailing slash and a "." were dropped from an input without a leading
\* slash
C23_WitnessRelative ==
    /\ last.op = "normalizePath"
    /\ last.path = <<"a", "/", ".", "/">>
    /\ last.content = <<"/", "a">>

\* the segment depth of a path: the number of segments of its normal form
PathDepth(p) == Len(Segments(normalizePath(p)))

\* ancestorPaths was applied to a valid path other than the root
AncestorsOfNonRoot ==
    /\ last.op = "ancestorPaths"
    /\ validatePath(last.path).ok
    /\ normalizePath(last.path) # Root

\* the list starts at the root, each element is the parent of the next, the
\* last one is the parent of p, and p itself is not in it
ProperAncestorChain(as, p) ==
    /\ as # <<>>
    /\ as[1] = Root
    /\ \A i \in 1..(Len(as) - 1) :
          as[i] = parentPath(as[i + 1]) /\ as[i] # as[i + 1]
    /\ as[Len(as)] = parentPath(p)
    /\ \A i \in 1..Len(as) : as[i] # normalizePath(p)

\* C24 (as claimed): for a valid non-root path p, parent(p) is the last
\* element of ancestors(p), ancestors(p) lists every proper ancestor from
\* the root downward without p, and its length is the segment depth of p
\* minus one.
C24_AncestorsLength ==
    AncestorsOfNonRoot =>
        /\ ProperAncestorChain(last.entries, last.path)
        /\ Len(last.entries) = PathDepth(last.path) - 1

\* C24 (amended): as above, but the length of ancestors(p) is the segment
\* depth of p itself, the root being one of the ancestors listed.
C24_Ancestors ==
    AncestorsOfNonRoot =>
        /\ ProperAncestorChain(last.entries, last.path)
        /\ Len(last.entries) = PathDepth(last.path)

\* ancestorPaths("a/a/a") returned the three ancestors "/", "/a", "/a/a".
C24_Witness ==
    /\ AncestorsOfNonRoot
    /\ last.path = <<"a", "/", "a", "/", "a">>
    /\ last.entries = << Root, <<"/", "a">>, <<"/", "a", "/", "a">> >>

\* C25: under every interleaving of the storage calls of concurrent
\* operations, every directory node has null content.
C25_ContentOnlyForFiles ==
    \A r \in nodes : r.node_type = "directory" => r.content = NULL

\* C26: with enableRls, every namespace-scoped statement executes on the
\* client on which its set_config ran, after it, and with the client's
\* app.vfs_session_id equal to the namespace of the statement: a caller
\* about to execute holds the client alone and finds its own namespace
\* set on it, and every statement executed was executed that way.
C26_FilterOnSameConnection ==
    enableRls =>
        \A p \in Procs :
            /\ procs[p].phase \in {"exec", "release"} =>
                  /\ procs[p].conn \in ConnIds
                  /\ conns[procs[p].conn].owner = p
                  /\ procs[p].setConn = procs[p].conn
                  /\ conns[procs[p].conn].setting = procs[p].ns
                  /\ \A q \in Procs \ {p} : procs[q].conn # procs[p].conn
            /\ procs[p].execConn # 0 =>
                  /\ procs[p].execConn = procs[p].execSetConn
                  /\ procs[p].execSetting = procs[p].ns

\* A statement of namespace "A" ran on a client that another caller had
\* left set to namespace "B".
C26_Witness ==
    /\ enableRls
    /\ \E p \in Procs, q \in Procs :
          /\ p # q
          /\ procs[p].phase = "release"
          /\ procs[p].ns = "A"
          /\ procs[q].ns = "B"
          /\ procs[q].execConn = procs[p].conn
          /\ procs[p].execSetting = "A"

\* C27: an operation that begins on a namespace whose row and root
\* directory are absent from storage (never provisioned, or swept after its
\* id was cached), and during which no sweep of that namespace happens,
\* finds both present at its first node access and does not end with a
\* database error.
C27_CacheNotAuthoritative ==
    \A p \in Procs :
        (procs[p].absentAtBegin /\ ~procs[p].sweptDuring) =>
            /\ procs[p].presentAtAccess # "no"
            /\ procs[p].result # "DBERROR"

\* both callers have ended an operation on namespace id that each began
\* while id was not cached and had no row, and nothing was swept
BothFirstOn(id) ==
    /\ hist.swept = {}
    /\ \A p \in Procs :
          /\ procs[p].pc = "done"
          /\ procs[p].ns = id
          /\ procs[p].unknownAtBegin

\* C28: concurrent first operations on the same unknown namespace id leave
\* exactly one namespace row and exactly one root directory for the id,
\* none of them ends with an error of provisioning, and the cache holds
\* the id.
C28_ConcurrentProvisioning ==
    \A id \in {c[1] : c \in Callers} :
        BothFirstOn(id) =>
            /\ Cardinality({row \in sessions : row.id = id}) = 1
            /\ Cardinality(getNode(nodes, id, Root)) = 1
            /\ \A r \in getNode(nodes, id, Root) : r.node_type = "directory"
            /\ \A p \in Procs : procs[p].result # "DBERROR"
            /\ id \in known

\* Two first operations on "A", one naming it as a session and one as a
\* store, both provisioned it and ended.
C28_Witness ==
    /\ BothFirstOn("A")
    /\ \E p, q \in Procs : procs[p].store = NoStore /\ procs[q].store = "A"
    /\ \A p \in Procs : procs[p].result = "ok"

\* both callers have ended a write to the same path of namespace id, and
\* nothing was swept
BothWrote(id) ==
    /\ hist.swept = {}
    /\ \A p \in Procs :
          /\ procs[p].pc = "done"
          /\ procs[p].op = "write"
          /\ procs[p].ns = id
          /\ procs[p].path = ConcPath

\* C29: two concurrent writes to the same path of one namespace both
\* succeed, leave exactly one node at the path, a file, and its content is
\* the content of the write whose upsert executed last.
C29_LastWriteWins ==
    \A id \in {c[1] : c \in Callers} :
        BothWrote(id) =>
            /\ \A p \in Procs : procs[p].result = "ok"
            /\ hist.lastUpsert.ns = id
            /\ hist.lastUpsert.path = ConcPath
            /\ hist.lastUpsert.proc \in Procs
            /\ getNode(nodes, id, ConcPath) =
                  {FileRow(id, ConcPath, ConcContent(hist.lastUpsert.proc))}

\* Two writes of different contents to "/a" of "A" overlapped: the second
\* caller began before the first one's upsert, and the first caller's
\* upsert executed last.
C29_Witness ==
    /\ BothWrote("A")
    /\ hist.lastUpsert.proc = 1
    /\ procs[2].existing = "none"
    /\ procs[1].existing = "none"
    /\ getNode(nodes, "A", ConcPath) = {FileRow("A", ConcPath, <<"x">>)}

\* C30: grep returns a match for every line that matches the pattern in
\* every file of the namespace that passes the path filter: requiring the
\* whole content to match first drops no file that has a matching line,
\* patterns anchored with ^ or $ included.
C30_PrefilterDropsNothing ==
    OpOk("grep") =>
        \A r \in FilesOf(prev.nodes, last.ns) :
            PassesFilter(r.path) =>
                LET lines == Split(r.content, "\n")
                IN  \A i \in 1..Len(lines) :
                        RegexMatch(lines[i], last.arg) =>
                            \E k \in 1..Len(last.entries) :
                                last.entries[k] = [path |-> r.path,
                                                   lineNumber |-> i,
                                                   line |-> lines[i]]

\* path matches filter f read as a wildcard: "*" (and so "**") stands for
\* any run of characters, every other character for itself
RECURSIVE WildMatch(_, _)
WildMatch(path, f) ==
    IF f = <<>> THEN path = <<>>
    ELSE IF Head(f) = "*"
    THEN \E k \in 0..Len(path) : WildMatch(Substr(path, k + 1), Tail(f))
    ELSE path # <<>> /\ Head(path) = Head(f) /\ WildMatch(Tail(path), Tail(f))

\* C31: with a path filter f, grep searches a file exactly when its whole
\* path matches f read as a wildcard: a file whose content matches the
\* pattern contributes matches if and only if its path matches f.
C31_PathFilterIsWildcard ==
    (OpOk("grep") /\ last.path # <<>>) =>
        \A r \in FilesOf(prev.nodes, last.ns) :
            RegexMatch(r.content, last.arg) =>
                ((\E k \in 1..Len(last.entries) : last.entries[k].path = r.path)
                    <=> WildMatch(r.path, last.path))


\* C32 (as claimed): a successful rm(p) removes exactly the rows at p and
\* below p + "/", leaves every other row of every namespace as it was, and
\* returns the number of rows of that subtree.
C32_RmFrame ==
    OpOk("rm") =>
        LET old == Subtree(prev.nodes, last.ns, last.path)
        IN  /\ prev.nodes \ nodes = old
            /\ nodes \subseteq prev.nodes
            /\ last.count = Cardinality(old)

\* C33 (as claimed): a successful move(src, dest) changes the path of
\* exactly the rows at src and below src + "/"; every other row keeps its
\* path, type and content, and the only rows added besides the relocated
\* ones are directories at proper ancestors of dest.
C33_MoveFrame ==
    OpOk("move") =>
        LET old   == Subtree(prev.nodes, last.ns, last.path)
            moved == {Relocated(r, last.path, last.dest) : r \in old}
            made  == {r \in nodes \ (prev.nodes \cup moved) : TRUE}
        IN  /\ prev.nodes \ nodes = old
            /\ moved \subseteq nodes
            /\ \A r \in made :
                  /\ r.session_id = last.ns /\ r.node_type = "directory"
                  /\ StartsWith(last.dest, r.path \o <<"/">>)
            /\ Cardinality(nodes) = Cardinality(prev.nodes) + Cardinality(made)


\* C34: an operation that fails with ENOENT, EISDIR, ENOTDIR, EEXIST or
\* EINVAL removes and changes no row and adds none but the root of the
\* namespace it targeted, when that namespace was provisioned by it; the
\* namespace rows it leaves are those it found plus at most that one.
C34_FailureChangesNothing ==
    last.err \in VfsErrorCodes =>
        /\ OnlyProvisioned(TargetNs(last))
        /\ prev.sessions \subseteq sessions
        /\ \A x \in sessions \ prev.sessions : x.id = TargetNs(last)

\* a move failed with ENOENT although its destination lies below a
\* directory that does not exist, in a namespace the move provisioned
C34_Witness ==
    /\ last.op = "move" /\ last.err = "ENOENT"
    /\ Len(last.dest) > 2
    /\ getNode(nodes, last.ns, parentPath(last.dest)) = {}
    /\ DirRow(last.ns, Root) \in nodes \ prev.nodes


\* both callers have returned
AllDone == \A p \in Procs : procs[p].pc = "done"

\* the content of the file at path in table N, the empty string when no
\* row is there
ContentAt(N, ns, path) ==
    LET hit == getNode(N, ns, path)
    IN  IF hit = {} THEN <<>> ELSE ContentOf(hit)

\* both callers appended to the same path, which held a file or nothing
\* when they began
BothAppended ==
    /\ AllDone
    /\ \A p \in Procs : procs[p].op = "append" /\ procs[p].path = procs[1].path
    /\ ~IsDir(getNode(prev.nodes, RaceNs, procs[1].path))

\* C35: when two appends to one path run concurrently on a file with
\* content x, or on an absent path (x empty), both succeed and the file
\* ends with x followed by the two pieces in one order or the other.
C35_ConcurrentAppends ==
    BothAppended =>
        LET path == procs[1].path
            x    == ContentAt(prev.nodes, RaceNs, path)
            c1   == procs[1].content
            c2   == procs[2].content
            hit  == getNode(nodes, RaceNs, path)
        IN  /\ \A p \in Procs : procs[p].result = "ok"
            /\ IsFile(hit)
            /\ ContentOf(hit) \in {x \o c1 \o c2, x \o c2 \o c1}

\* two appends to an existing file with content z have returned, the
\* second caller's piece stored first
C35_Witness ==
    /\ BothAppended
    /\ ContentAt(prev.nodes, RaceNs, procs[1].path) = <<"z">>
    /\ ContentAt(nodes, RaceNs, procs[1].path) = <<"z", "y", "x">>


\* the parent path of every row but a root holds a row of the same namespace
NoOrphan(N) ==
    \A r \in N : r.path # Root => getNode(N, r.session_id, parentPath(r.path)) # {}

\* C36 (as claimed): whatever the interleaving of the storage calls of the
\* two callers, once both have returned the parent path of every row
\* other than a root holds a row.
C36_NoOrphanAfterRace == AllDone => NoOrphan(nodes)


\* UNIQUE (session_id, path): no two rows of N share namespace and path
UniquePaths(N) ==
    \A r1, r2 \in N :
        (r1.session_id = r2.session_id /\ r1.path = r2.path) => r1 = r2

\* this step is the UPDATE of the move of caller p
MoveRuns(p) ==
    /\ procs[p].op = "move" /\ procs[p].pc = "final"
    /\ procs'[p].pc # "final"

\* a row outside the subtree of the source of p's move is at the
\* destination or at a path a row of the subtree would be renamed to
DestTaken(p) ==
    LET pr  == procs[p]
        old == Subtree(nodes, pr.ns, pr.path)
    IN  \E r \in old, x \in nodes \ old :
           /\ x.session_id = pr.ns
           /\ x.path = Relocated(r, pr.path, pr.dest).path

\* the step of caller p's UPDATE: it leaves every row outside the subtree
\* of the source as it is, and when the destination is taken it raises a
\* storage error and leaves the whole table as it is
MoveOverwritesNothing(p) ==
    MoveRuns(p) =>
        /\ nodes \ Subtree(nodes, procs[p].ns, procs[p].path) \subseteq nodes'
        /\ DestTaken(p) => (nodes' = nodes /\ procs'[p].result = "DBERROR")

\* C37: a move overwrites no row, also when the destination was taken
\* after the move looked it up: its UPDATE then fails as a whole with a
\* storage error, the subtree of the source and the row at the destination
\* stay as they are, and in every state at most one row exists per
\* namespace and path.
C37_MoveNeverOverwrites ==
    /\ [](UniquePaths(nodes))
    /\ [][\A p \in Procs : MoveOverwritesNothing(p)]_vars

\* a move whose lookup found the destination free failed on its UPDATE
\* because the other caller wrote a file there in between; the source and
\* the file of the other caller are in place
C37_Witness ==
    \E p, q \in Procs :
        /\ procs[p].op = "move" /\ procs[p].result = "DBERROR"
        /\ procs[q].op = "write" /\ procs[q].path = procs[p].dest
        /\ procs[q].result = "ok"
        /\ getNode(nodes, RaceNs, procs[p].path) # {}
        /\ getNode(nodes, RaceNs, procs[p].dest)
             = {FileRow(RaceNs, procs[p].dest, procs[q].content)}


\* a client is checked out by the caller that is between pool.connect()
\* and client.release(), and by nobody else
HeldByItsCaller ==
    /\ \A c \in ConnIds : conns[c].owner # 0 =>
          /\ procs[conns[c].owner].conn = c
          /\ procs[conns[c].owner].phase \in {"set", "exec", "release"}
    /\ \A p \in Procs : procs[p].conn # 0 => conns[procs[p].conn].owner = p

\* a client goes back to the pool only in the step in which its holder
\* leaves the finally block, and the holder then holds none
ReleasedByHolder ==
    \A c \in ConnIds :
        (conns[c].owner # 0 /\ conns'[c].owner = 0) =>
            /\ procs[conns[c].owner].phase = "release"
            /\ procs'[conns[c].owner].conn = 0
            /\ procs'[conns[c].owner].phase # "release"

\* no caller is inside a call
Quiet == \A p \in Procs : procs[p].pc \in {"idle", "done"}

\* C38: with the isolation mode on, a client that was checked out is held
\* by one caller, goes back to the pool in that caller's finally block and
\* only there, and does go back, also when set_config or the statement
\* failed; when no call is in progress every client is in the pool, and
\* a caller waiting for a client gets one.
C38_ClientsReleased ==
    /\ [](HeldByItsCaller /\ (Quiet => \A c \in ConnIds : conns[c].owner = 0))
    /\ [][ReleasedByHolder]_vars
    /\ \A c \in ConnIds : (conns[c].owner # 0) ~> (conns[c].owner = 0)
    /\ \A p \in Procs : (procs[p].phase = "connect") ~> (procs[p].phase # "connect")

\* a call ended with the storage error of a failed set_config or
\* statement, and the one client of the pool is back in the pool
C38_Witness ==
    /\ enableRls
    /\ \E p \in Procs : procs[p].pc = "done" /\ procs[p].result = "DBERROR"
                          /\ procs[p].execConn = 0
    /\ \E p \in Procs : procs[p].pc = "done" /\ procs[p].result = "DBERROR"
                          /\ procs[p].execConn # 0
    /\ \A c \in ConnIds : conns[c].owner = 0


\* C39 (as claimed): with the isolation mode on, a client in the pool has
\* app.vfs_session_id unset, and listStores runs on a client on which it
\* is unset and returns what it returns on a fresh connection.
C39_PooledClientUnset ==
    enableRls =>
        /\ \A c \in ConnIds : conns[c].owner = 0 => conns[c].setting = NoSetting
        /\ last.op = "listStores" =>
              /\ hist.listedOn = NoSetting
              /\ last.entries = listStores(RlsSessions(NoSetting, prev.sessions))


\* the statements of ensureSession / ensureStore, as values of pc
ProvisionPcs == {"insSession", "insRoot"}

\* the namespace row and the root directory of id are in storage
RowAndRoot(id) ==
    /\ HasSession(sessions, id)
    /\ DirRow(id, Root) \in nodes

\* a caller about to add its id to the cache has had both statements
\* succeed, and unless a namespace was deleted from outside, every cached
\* id has its row and its root
CacheHoldsProvisioned ==
    /\ \A p \in Procs : procs[p].pc = "cacheAdd" =>
          /\ procs[p].pending # "DBERROR"
          /\ hist.swept = {} => RowAndRoot(procs[p].ns)
    /\ hist.swept = {} => \A id \in known : RowAndRoot(id)

\* a caller that finds its id not cached starts with the INSERT of the
\* namespace row; a caller whose provisioning statement rejected ends
\* there and leaves the cache as it is; and the cache grows only by the
\* id of a caller that is at knownNamespaces.add
CacheGrowsAfterWrites ==
    /\ \A p \in Procs :
          (procs[p].pc \in ProvisionPcs /\ procs[p].pending = "DBERROR"
              /\ procs'[p].pc # procs[p].pc)
            => (procs'[p].pc = "done" /\ known' = known)
    /\ \A p \in Procs :
          (procs[p].pc = "idle" /\ procs'[p].pc # "idle"
              /\ procs'[p].ns \notin known) => procs'[p].pc = "insSession"
    /\ known' # known =>
          \E p \in Procs : /\ procs[p].pc = "cacheAdd"
                           /\ known' = known \cup {procs[p].ns}

\* C40: an id enters the known-namespace cache only after the INSERT of
\* its namespace row and the insertDir of its root have both succeeded; a
\* caller whose provisioning failed leaves the id uncached, so the next
\* caller of that id provisions again; and while no namespace is deleted
\* from outside every cached id has its row and its root in storage.
C40_CacheAfterProvisioning ==
    /\ [](CacheHoldsProvisioned)
    /\ [][CacheGrowsAfterWrites]_vars

\* the first caller of an id failed inside ensureSession and left the id
\* uncached; the second caller provisioned it again and the id is cached,
\* with its row and its root
C40_Witness ==
    \E p, q \in Procs :
        /\ procs[p].ns = procs[q].ns /\ p # q
        /\ procs[p].pc = "done" /\ procs[p].result = "DBERROR"
        /\ procs[p].unknownAtBegin /\ procs[p].execConn = 0
        /\ procs[q].unknownAtBegin /\ procs[q].presentAtAccess = "yes"
        /\ procs[q].ns \in known /\ RowAndRoot(procs[q].ns)
        /\ hist.swept = {}

====
